---- MODULE Spec2Model ----
(***************************************************************************)
(* A model of the nami signal/binding/watcher propagation engine:          *)
(*   - the watcher registry (WatcherManager / WatcherManagerInner) in its   *)
(*     two source forms: core/src/watcher.rs, whose notify iterates over a  *)
(*     snapshot, and src/watcher.rs, whose notify iterates over the live    *)
(*     map while holding a shared RefCell borrow;                           *)
(*   - Container (get / set / watch) on top of the registry;                *)
(*   - the time-windowed operators Debounce and Throttle;                   *)
(*   - the derived signals and bindings Cached, Distinct, Zip and Mapping   *)
(*     (with filter and select, which are Mappings);                        *)
(*   - Binding::handle, List, clones, Computed, the watcher identifiers,    *)
(*     SignalStream, Metadata and chains of operators;                      *)
(*   - Lazy, and the re-entrant and ownership cases: Cached read and List   *)
(*     mutated from inside a callback, a Throttle whose watcher sets the    *)
(*     source, the handles of Debounce / Throttle, Zip over any two sides.  *)
(***************************************************************************)
EXTENDS Integers, Sequences, FiniteSets, TLC

\* ------------------------------------------------------------------ bounds
MaxId == 3
MaxCalls == 2
Duration == 2
MaxTime == 4
MaxUp == 2
MaxDown == 2
MaxSets == 2

\* --------------------------------------------------------------- constants
\* The registry and the Container never inspect a value (T: Clone is all they
\* ask for): two values tell a changed value from an unchanged one.
Values == {0, 1}
Ids == 1..MaxId

\* Metadata is a map from a type identity to a value; it is modelled by the
\* set of type tags it holds.  Metadata::new() is the empty map.
EmptyMeta == {}
Metas == {EmptyMeta, {"tag"}}

\* What a watcher callback does when it is invoked.
\*   log    : records the context it receives
\*   set    : calls Container::set(0) when the value it receives is not 0
\*   reg    : registers a further (log) watcher on the same registry
\*   cancel : cancels the second watcher registered on the same registry
\*            (a later one, itself or an earlier one, by its own place)
\* The upstream closure of Debounce / Throttle is a callback of kind
\* "upstream", with the instance whose watch call created it as arg.
Callbacks ==
    {[k |-> "log", arg |-> 0], [k |-> "reg", arg |-> 0],
     [k |-> "set", arg |-> 0], [k |-> "cancel", arg |-> 2]}

VARIABLES
    kind,       \* which registry source is in use: "snapshot" | "borrow"
    value,      \* Container.value
    id,         \* WatcherManagerInner.id, the next identifier to assign
    map,        \* WatcherManagerInner.map, entries in key order
    stack,      \* notify calls in progress, innermost last
    panicked,   \* "no", or the operation that hit a RefCell borrow conflict
    calls,      \* number of notify calls started so far
    log,        \* every callback invocation, in order
    returned,   \* record of every notify call that has returned
    regAt,      \* regAt[i]: calls started when watcher i was registered
    cancelAt,   \* cancelAt[i]: calls started when i was first cancelled
    last,       \* the operation the last step performed
    \* --- Debounce / Throttle over the Container as their source
    wrapper,        \* "debounce" | "throttle" ("none": no operator built)
    srcMeta,        \* metadata the source attaches (WithMetadata), or empty
    now,            \* the clock of the single-threaded event loop
    insts,          \* the operator and its clone: the cells each points to
    guardCells,     \* Rc<RefCell<Option<S::Guard>>>: the upstream guard
    timerCells,     \* Rc<RefCell<Option<Task<()>>>>: the last task spawned
    throttledCells, \* Rc<Cell<bool>> of Throttle
    dregs,          \* the operators' own WatcherManager (downstream)
    tasks,          \* every task handed to the executor, in spawn order
    uplog,          \* every invocation of the upstream closure
    dlog,           \* every invocation of a downstream watcher
    \* --- reads, and the derived signals over the Container
    got,        \* the read the last step performed, with its result
    cells,      \* the shared cells of the derived signal (cache, last value)
    bside,      \* the second Container of a Zip: its value and registry
    sets,       \* every set made on a Container or a binding, in order
    xlog,       \* every invocation of a watcher of the derived signal
    srcGets     \* calls of the source's get since its last notification

cvars == <<kind, value, id, map, stack, panicked, calls, log, returned,
           regAt, cancelAt, last>>

tvars == <<wrapper, srcMeta, now, insts, guardCells, timerCells, throttledCells,
           dregs, tasks, uplog, dlog>>

yvars == <<cells, bside, sets, xlog, srcGets>>

xvars == <<got, yvars>>

vars == <<cvars, tvars, xvars>>

\* ------------------------------------------------- WatcherManagerInner
\* A list that puts the newest entry first instead of keeping key order.
InsertFront(m, e) == <<e>> \o m

RECURSIVE InsertSorted(_, _)
\* BTreeMap::insert: keeps the entries in key order, replaces an equal key.
InsertSorted(m, e) ==
    IF m = <<>> THEN <<e>>
    ELSE IF Head(m).id = e.id THEN <<e>> \o Tail(m)
    ELSE IF Head(m).id > e.id THEN <<e>> \o m
    ELSE <<Head(m)>> \o InsertSorted(Tail(m), e)

\* A removal that also drops every later entry (split_off in place of remove).
RemoveFrom(m, i) == SelectSeq(m, LAMBDA e : e.id < i)

\* BTreeMap::remove: drops the entry with the key, if there is one.
Remove(m, i) == SelectSeq(m, LAMBDA e : e.id # i)

Keys(m) == {m[n].id : n \in 1..Len(m)}

KeySeq(m) == [n \in 1..Len(m) |-> m[n].id]

\* WatcherManagerInner::assign + register: the new entry gets the current id
\* and the id is advanced by one.
Register(inner, cb) ==
    [id |-> inner.id + 1,
     map |-> InsertSorted(inner.map, [id |-> inner.id, cb |-> cb])]

\* A cancel that leaves the entry in the map.
CancelKeeps(inner, i) == inner

\* WatcherManagerInner::cancel
Cancel(inner, i) == [inner EXCEPT !.map = Remove(inner.map, i)]

\* An iteration that stops one entry short.
SnapshotShort(m) == SubSeq(m, 1, Len(m) - 1)

\* WatcherManagerInner::watchers_snapshot / self.map.values(): the callbacks
\* in ascending key order.
Snapshot(m) == m

Inner == [id |-> id, map |-> map]

\* ------------------------------------------------------- borrow rules
Borrowed == kind = "borrow" /\ stack # <<>>

\* register and cancel take inner.borrow_mut(): a conflict while notify of
\* src/watcher.rs holds its shared borrow across the callbacks.
MutateConflict == Borrowed

\* A notify that takes the exclusive borrow.
NotifyConflictExclusive == kind = "borrow" /\ stack # <<>>

\* notify takes inner.borrow(): shared borrows nest.
NotifyConflict == FALSE

\* ------------------------------------------------------------ Container
NoOp == [op |-> "none", arg |-> 0]

None == 0

\* No read has been made by the last step.
NoGet == [who |-> "none"]

\* No derived signal has been built on the Container.
NoDerived ==
    /\ got = NoGet
    /\ cells = <<>>
    /\ bside = <<>>
    /\ sets = <<>>
    /\ xlog = <<>>
    /\ srcGets = 0

\* No Debounce or Throttle has been built on the Container.
NoOperator ==
    /\ wrapper = "none"
    /\ srcMeta = EmptyMeta
    /\ now = 0
    /\ insts = <<>>
    /\ guardCells = <<>>
    /\ timerCells = <<>>
    /\ throttledCells = <<>>
    /\ dregs = <<>>
    /\ tasks = <<>>
    /\ uplog = <<>>
    /\ dlog = <<>>

Init ==
    /\ kind \in {"snapshot", "borrow"}
    /\ value = 0
    /\ id = 1
    /\ map = <<>>
    /\ stack = <<>>
    /\ panicked = "no"
    /\ calls = 0
    /\ log = <<>>
    /\ returned = {}
    /\ regAt = [i \in {} |-> 0]
    /\ cancelAt = [i \in {} |-> 0]
    /\ last = NoOp
    /\ NoOperator
    /\ NoDerived

Idle == stack = <<>> /\ panicked = "no"

\* A notify call in progress: the context it delivers, the callbacks it still
\* has to invoke, and what it has seen (regs: the ids registered when it
\* started; clean: no other set has stored a value since it started; old:
\* the value the Container held before the call).
Frame(c, op, v, m, entries) ==
    [call |-> c, op |-> op, v |-> v, m |-> m, pending |-> Snapshot(entries),
     regs |-> KeySeq(entries), clean |-> TRUE, depth |-> Len(stack) + 1,
     old |-> value]

\* The metadata Container::set hands to notify.
SetMeta == EmptyMeta

\* Container::watch -> register_as_guard -> register
Watch(cb) ==
    /\ Idle
    /\ id <= MaxId
    /\ LET r == Register(Inner, cb) IN
        /\ map' = r.map
        /\ id' = r.id
    /\ regAt' = [i \in DOMAIN regAt \cup {id} |->
                    IF i = id THEN calls ELSE regAt[i]]
    /\ last' = [op |-> "register", arg |-> id]
    /\ UNCHANGED <<kind, value, stack, panicked, calls, log, returned, cancelAt>>
    /\ UNCHANGED <<tvars, xvars>>

\* Dropping a guard, or WatcherManager::cancel called with an identifier that
\* was handed out, whether still registered or not.
DropGuard(i) ==
    /\ Idle
    /\ i < id
    /\ LET r == Cancel(Inner, i) IN
        /\ map' = r.map
        /\ id' = r.id
    /\ cancelAt' = IF i \in Keys(map) /\ i \notin DOMAIN cancelAt
                   THEN [j \in DOMAIN cancelAt \cup {i} |->
                            IF j = i THEN calls ELSE cancelAt[j]]
                   ELSE cancelAt
    /\ last' = [op |-> "cancel", arg |-> i]
    /\ UNCHANGED <<kind, value, stack, panicked, calls, log, returned, regAt>>
    /\ UNCHANGED <<tvars, xvars>>

\* Container::set from outside any callback: store the value, start notify.
Set(v) ==
    /\ Idle
    /\ calls < MaxCalls
    /\ value' = v
    /\ calls' = calls + 1
    /\ stack' = <<Frame(calls + 1, "set", v, SetMeta, map)>>
    /\ last' = [op |-> "set", arg |-> v]
    /\ UNCHANGED <<kind, id, map, panicked, log, returned, regAt, cancelAt>>
    /\ UNCHANGED <<tvars, xvars>>

Top == stack[Len(stack)]

PopPending(st) ==
    [st EXCEPT ![Len(st)].pending = Tail(st[Len(st)].pending)]

Delivered(f, e) == [w |-> e.id, call |-> f.call, v |-> f.v, m |-> f.m]

\* The notify loop hands the context to the next callback, which only
\* records it (also: a set callback that already sees its value, a reg
\* callback once the registry is full).
InvokeLog ==
    /\ stack # <<>> /\ panicked = "no"
    /\ Top.pending # <<>>
    /\ LET e == Head(Top.pending) IN
        /\ \/ e.cb.k = "log"
           \/ e.cb.k = "set" /\ (e.cb.arg = Top.v \/ calls >= MaxCalls)
           \/ e.cb.k = "reg" /\ id > MaxId
        /\ log' = Append(log, Delivered(Top, e))
    /\ stack' = PopPending(stack)
    /\ last' = NoOp
    /\ UNCHANGED <<kind, value, id, map, panicked, calls, returned, regAt,
                   cancelAt>>
    /\ UNCHANGED <<tvars, xvars>>

\* The callback calls Container::set(arg) from inside the notification.
InvokeSet ==
    /\ stack # <<>> /\ panicked = "no"
    /\ Top.pending # <<>>
    /\ LET e == Head(Top.pending) IN
        /\ e.cb.k = "set" /\ e.cb.arg # Top.v /\ calls < MaxCalls
        /\ log' = Append(log, Delivered(Top, e))
        /\ value' = e.cb.arg
        /\ calls' = calls + 1
        /\ IF NotifyConflict
           THEN /\ panicked' = "notify"
                /\ stack' = PopPending(stack)
           ELSE /\ panicked' = panicked
                /\ stack' = Append(
                      [n \in 1..Len(stack) |->
                          [PopPending(stack)[n] EXCEPT !.clean = FALSE]],
                      Frame(calls + 1, "set", e.cb.arg, SetMeta, map))
        /\ last' = [op |-> "set", arg |-> e.cb.arg]
    /\ UNCHANGED <<kind, id, map, returned, regAt, cancelAt>>
    /\ UNCHANGED <<tvars, xvars>>

\* The callback registers a further watcher from inside the notification.
InvokeRegister ==
    /\ stack # <<>> /\ panicked = "no"
    /\ Top.pending # <<>>
    /\ LET e == Head(Top.pending) IN
        /\ e.cb.k = "reg" /\ id <= MaxId
        /\ log' = Append(log, Delivered(Top, e))
    /\ stack' = PopPending(stack)
    /\ IF MutateConflict
       THEN /\ panicked' = "register"
            /\ last' = NoOp
            /\ UNCHANGED <<id, map, regAt>>
       ELSE /\ panicked' = panicked
            /\ LET r == Register(Inner, [k |-> "log", arg |-> 0]) IN
                /\ map' = r.map
                /\ id' = r.id
            /\ regAt' = [i \in DOMAIN regAt \cup {id} |->
                            IF i = id THEN calls ELSE regAt[i]]
            /\ last' = [op |-> "register", arg |-> id]
    /\ UNCHANGED <<kind, value, calls, returned, cancelAt>>
    /\ UNCHANGED <<tvars, xvars>>

\* The callback cancels a watcher from inside the notification.
InvokeCancel ==
    /\ stack # <<>> /\ panicked = "no"
    /\ Top.pending # <<>>
    /\ LET e == Head(Top.pending) IN
        /\ e.cb.k = "cancel"
        /\ log' = Append(log, Delivered(Top, e))
        /\ IF MutateConflict
           THEN /\ panicked' = "cancel"
                /\ last' = NoOp
                /\ UNCHANGED <<id, map, cancelAt>>
           ELSE /\ panicked' = panicked
                /\ LET r == Cancel(Inner, e.cb.arg) IN
                    /\ map' = r.map
                    /\ id' = r.id
                /\ cancelAt' =
                     IF e.cb.arg \in Keys(map) /\ e.cb.arg \notin DOMAIN cancelAt
                     THEN [j \in DOMAIN cancelAt \cup {e.cb.arg} |->
                              IF j = e.cb.arg THEN calls ELSE cancelAt[j]]
                     ELSE cancelAt
                /\ last' = [op |-> "cancel", arg |-> e.cb.arg]
    /\ stack' = PopPending(stack)
    /\ UNCHANGED <<kind, value, calls, returned, regAt>>
    /\ UNCHANGED <<tvars, xvars>>

\* The notify loop is through: the call returns to its caller.
Return ==
    /\ stack # <<>> /\ panicked = "no"
    /\ Top.pending = <<>>
    /\ returned' = returned \cup
          {[call |-> Top.call, op |-> Top.op, v |-> Top.v, m |-> Top.m,
            regs |-> Top.regs, clean |-> Top.clean, depth |-> Top.depth,
            old |-> Top.old, got |-> value]}
    /\ stack' = SubSeq(stack, 1, Len(stack) - 1)
    /\ last' = NoOp
    /\ UNCHANGED <<kind, value, id, map, panicked, calls, log, regAt,
                   cancelAt>>
    /\ UNCHANGED <<tvars, xvars>>

Next ==
    \/ \E cb \in Callbacks : Watch(cb)
    \/ \E i \in Ids : DropGuard(i)
    \/ \E v \in Values : Set(v)
    \/ InvokeLog
    \/ InvokeSet
    \/ InvokeRegister
    \/ InvokeCancel
    \/ Return

Spec == Init /\ [][Next]_vars

\* ================================================== Debounce and Throttle
\* with_executor: every shared cell is freshly allocated (Rc::default(),
\* WatcherManager::new()); they are cell 1 of each array.
NewInstance == [guard |-> 1, timer |-> 1, watchers |-> 1, throttled |-> 1]

\* A clone that allocates a guard cell of its own (cell n).
CloneOwnGuard(d, n) == [d EXCEPT !.guard = n]

\* Clone: every field is an Rc / WatcherManager clone, so the clone points to
\* the cells of the original (n, the clone's number, names no new cell).
Clone(d, n) == d

\* The operator (Debounce::new / Throttle::new on the Container, which a
\* WithMetadata wraps) and one clone of it.  A clone only copies pointers to
\* the cells, so when it is made does not matter.
InitTimed ==
    /\ kind = "borrow"
    /\ value = 0
    /\ id = 1
    /\ map = <<>>
    /\ stack = <<>>
    /\ panicked = "no"
    /\ calls = 0
    /\ log = <<>>
    /\ returned = {}
    /\ regAt = [i \in {} |-> 0]
    /\ cancelAt = [i \in {} |-> 0]
    /\ last = NoOp
    /\ wrapper \in {"debounce", "throttle"}
    /\ srcMeta = {"tag"}
    /\ now = 0
    /\ insts = <<NewInstance, Clone(NewInstance, 2)>>
    /\ guardCells = [k \in 1..2 |-> None]
    /\ timerCells = [k \in 1..2 |-> None]
    /\ throttledCells = [k \in 1..2 |-> FALSE]
    /\ dregs = [k \in 1..2 |-> [id |-> 1, map |-> <<>>]]
    /\ tasks = <<>>
    /\ uplog = <<>>
    /\ dlog = <<>>
    /\ NoDerived

Live(tk) == {t \in 1..Len(tk) : tk[t].st = "live"}

\* A timer whose deadline has come: the event loop runs it before anything
\* else that happens at that instant.
Expired == {t \in Live(tasks) : tasks[t].due <= now}

\* The part of the state an upstream closure works on.
Cells ==
    [tasks |-> tasks, timerCells |-> timerCells,
     throttledCells |-> throttledCells, uplog |-> uplog, dlog |-> dlog]

\* A previous task that is kept running detached instead of being dropped.
DetachTask(tk, t) == tk

\* Dropping a Task handle cancels the task if it has not completed.
DropTask(tk, t) ==
    IF t # None /\ tk[t].st = "live"
    THEN [tk EXCEPT ![t].st = "cancelled"]
    ELSE tk

\* executor.spawn_local(async { Timer::after(duration).await; ... })
Spawn(tk, d, v, m, n) ==
    Append(tk, [due |-> now + Duration, v |-> v, m |-> m, n |-> n,
                st |-> "live", inst |-> d])

\* watchers.notify(|| value.clone(), &metadata) on the operator's own
\* registry k: one invocation per registered watcher, in key order.  n is the
\* upstream invocation whose payload is delivered.
DownstreamNotify(s, k, v, m, n) ==
    s.dlog \o [j \in 1..Len(dregs[k].map) |->
                  [w |-> dregs[k].map[j].id, reg |-> k, v |-> v, m |-> m,
                   t |-> now, n |-> n, seen |-> Len(s.uplog)]]

Arrival(d, v, m, f) ==
    [t |-> now, v |-> v, m |-> m, fwd |-> f, src |-> calls + 1,
     reg |-> d.watchers, regs |-> Keys(dregs[d.watchers].map)]

\* A closure that leaves a pending timer alone and forgets the new payload.
DebounceKeepFirst(s, d, v, m) ==
    LET up == Append(s.uplog, Arrival(d, v, m, FALSE))
        t == s.timerCells[d.timer]
    IN  IF t # None /\ s.tasks[t].st = "live"
        THEN [s EXCEPT !.uplog = up]
        ELSE [s EXCEPT !.uplog = up,
                       !.tasks = Spawn(s.tasks, d, v, m, Len(up)),
                       !.timerCells[d.timer] = Len(s.tasks) + 1]

\* The closure Debounce::watch registers on its source.
DebounceUpstream(s, d, v, m) ==
    LET up == Append(s.uplog, Arrival(d, v, m, FALSE))
        tk == DropTask(s.tasks, s.timerCells[d.timer])
    IN  [s EXCEPT !.uplog = up,
                  !.tasks = Spawn(tk, d, v, m, Len(up)),
                  !.timerCells[d.timer] = Len(tk) + 1]

\* A gate that lets every notification through.
ThrottleGateOpen(flag) == FALSE

\* if throttled.get() { return; }
ThrottleGate(flag) == flag

\* The closure Throttle::watch registers on its source.
ThrottleUpstream(s, d, v, m) ==
    IF ThrottleGate(s.throttledCells[d.throttled])
    THEN [s EXCEPT !.uplog = Append(@, Arrival(d, v, m, FALSE))]
    ELSE LET up == Append(s.uplog, Arrival(d, v, m, TRUE))
             s1 == [s EXCEPT !.uplog = up]
             tk == DropTask(s.tasks, s.timerCells[d.timer])
         IN  [s1 EXCEPT !.dlog = DownstreamNotify(s1, d.watchers, v, m, Len(up)),
                        !.throttledCells[d.throttled] = TRUE,
                        !.tasks = Spawn(tk, d, v, m, Len(up)),
                        !.timerCells[d.timer] = Len(tk) + 1]

Upstream(s, d, v, m) ==
    IF wrapper = "debounce"
    THEN DebounceUpstream(s, d, v, m)
    ELSE ThrottleUpstream(s, d, v, m)

RECURSIVE RunUpstream(_, _, _, _)
\* WatcherManagerInner::notify of the source: every registered closure, in
\* key order.
RunUpstream(s, entries, v, m) ==
    IF entries = <<>> THEN s
    ELSE RunUpstream(Upstream(s, insts[Head(entries).cb.arg], v, m),
                     Tail(entries), v, m)

\* Debounce::watch / Throttle::watch on instance c: subscribe upstream if
\* the guard cell is empty, then register the watcher downstream.
TWatch(c) ==
    LET d == insts[c]
        k == d.watchers
    IN  /\ Expired = {}
        /\ dregs[k].id <= MaxDown
        /\ IF guardCells[d.guard] = None
           THEN LET r == Register(Inner, [k |-> "upstream", arg |-> c]) IN
                   /\ map' = r.map
                   /\ id' = r.id
                   /\ guardCells' = [guardCells EXCEPT ![d.guard] = id]
           ELSE UNCHANGED <<map, id, guardCells>>
        /\ dregs' = [dregs EXCEPT ![k] = Register(@, [k |-> "log", arg |-> 0])]
        /\ UNCHANGED <<wrapper, srcMeta, now, insts, timerCells,
                       throttledCells, tasks, uplog, dlog>>
        /\ UNCHANGED <<kind, value, stack, panicked, calls, log, returned,
                       regAt, cancelAt, last>>
        /\ got' = NoGet /\ UNCHANGED yvars

\* Dropping the guard a watch call on instance c returned.
TDropGuard(c, i) ==
    LET k == insts[c].watchers IN
        /\ Expired = {}
        /\ i \in Keys(dregs[k].map)
        /\ dregs' = [dregs EXCEPT ![k] = Cancel(@, i)]
        /\ UNCHANGED <<wrapper, srcMeta, now, insts, guardCells, timerCells,
                       throttledCells, tasks, uplog, dlog>>
        /\ UNCHANGED cvars
        /\ got' = NoGet /\ UNCHANGED yvars

\* Container::set on the source: store, then notify the upstream closures
\* with the metadata of set, enriched by the source's WithMetadata if any.
SourceSet(v) ==
    /\ Expired = {}
    /\ calls < MaxUp
    /\ value' = v
    /\ calls' = calls + 1
    /\ LET s == RunUpstream(Cells, Snapshot(map), v, SetMeta \cup srcMeta) IN
        /\ tasks' = s.tasks
        /\ timerCells' = s.timerCells
        /\ throttledCells' = s.throttledCells
        /\ uplog' = s.uplog
        /\ dlog' = s.dlog
    /\ UNCHANGED <<wrapper, srcMeta, now, insts, guardCells, dregs>>
    /\ UNCHANGED <<kind, id, map, stack, panicked, log, returned, regAt,
                   cancelAt, last>>
    /\ got' = NoGet /\ UNCHANGED yvars

\* Time passes; not past the deadline of a pending timer.  The clock only
\* counts the time during which a timer is pending: with none pending the
\* operator does nothing until the next notification, however late it comes.
Tick ==
    /\ Expired = {}
    /\ Live(tasks) # {}
    /\ now < MaxTime
    /\ now' = now + 1
    /\ UNCHANGED <<wrapper, srcMeta, insts, guardCells, timerCells,
                   throttledCells, dregs, tasks, uplog, dlog>>
    /\ UNCHANGED cvars
    /\ got' = NoGet /\ UNCHANGED yvars

\* The task Debounce spawned: Timer::after(duration) is over, notify.
DebounceFire(t) ==
    /\ wrapper = "debounce"
    /\ t \in Expired
    /\ dlog' = DownstreamNotify(Cells, tasks[t].inst.watchers, tasks[t].v,
                                tasks[t].m, tasks[t].n)
    /\ tasks' = [tasks EXCEPT ![t].st = "done"]
    /\ UNCHANGED <<wrapper, srcMeta, now, insts, guardCells, timerCells,
                   throttledCells, dregs, uplog>>
    /\ UNCHANGED cvars
    /\ got' = NoGet /\ UNCHANGED yvars

\* The task Throttle spawned: Timer::after(duration) is over, reopen.
ThrottleFire(t) ==
    /\ wrapper = "throttle"
    /\ t \in Expired
    /\ throttledCells' =
          [throttledCells EXCEPT ![tasks[t].inst.throttled] = FALSE]
    /\ tasks' = [tasks EXCEPT ![t].st = "done"]
    /\ UNCHANGED <<wrapper, srcMeta, now, insts, guardCells, timerCells,
                   dregs, uplog, dlog>>
    /\ UNCHANGED cvars
    /\ got' = NoGet /\ UNCHANGED yvars

\* Container::get: a clone of the stored value.
ContainerGet == value

\* A read that answers with the payload delivered downstream last.
OperatorGetDelivered(c) ==
    IF dlog = <<>> THEN 0 ELSE dlog[Len(dlog)].v

\* Debounce::get / Throttle::get on instance c: self.signal.get(), which a
\* WithMetadata passes on to the Container.
OperatorGet(c) == ContainerGet

\* A read of the operator through instance c.  The label keeps, with the
\* result, the state of the source and of the operator before the read.
TGet(c) ==
    /\ Expired = {}
    /\ got' = [who |-> "operator", c |-> c, v |-> OperatorGet(c),
               pre |-> <<cvars, tvars>>]
    /\ UNCHANGED <<cvars, tvars, yvars>>

NextTimed ==
    \/ \E c \in 1..Len(insts) : TGet(c)
    \/ \E c \in 1..Len(insts) : TWatch(c)
    \/ \E c \in 1..Len(insts), i \in 1..MaxDown : TDropGuard(c, i)
    \/ \E v \in Values : SourceSet(v)
    \/ Tick
    \/ \E t \in 1..Len(tasks) : DebounceFire(t)
    \/ \E t \in 1..Len(tasks) : ThrottleFire(t)

SpecTimed == InitTimed /\ [][NextTimed]_vars

\* ===================================== Cached, Distinct, Zip and Mapping
\* The derived signal built on the Container.
Deriveds == {"cached", "distinct", "zip", "mapping", "filter", "select"}

\* The derived bindings, which are all a Mapping.
Mappings == {"mapping", "filter", "select"}

\* The getter and setter of the plain Mapping convert by this offset.
Offset == 10

\* select(if_true, if_false), and a third value of the same type.  The bool
\* of the source binding is 1 (true) or 0 (false).
IfTrue == 21
IfFalse == 20
Neither == 22

\* The predicate given to filter.
Accepts(v) == v = 1

\* A setter of filter that sets whatever it is given.
FilterSetterAll(y) == <<y>>

\* The setter of filter: if filter(&value) { binding.set(value); }
FilterSetter(y) == IF Accepts(y) THEN <<y>> ELSE <<>>

\* The getter of select.
SelectGetter(x) == IF x = 1 THEN IfTrue ELSE IfFalse

\* A setter of select that sets true whatever it is given.
SelectSetterTrue(y) == 1

\* The setter of select: binding.set(value == if_true_clone)
SelectSetter(y) == IF y = IfTrue THEN 1 ELSE 0

\* The getter of the Mapping.
Getter(x) ==
    CASE wrapper = "mapping" -> x + Offset
      [] wrapper = "filter" -> x
      [] wrapper = "select" -> SelectGetter(x)

\* What the setter of the Mapping sets the source to when it is given y:
\* <<v>>, or <<>> when it does not call set.
Setter(y) ==
    CASE wrapper = "mapping" -> <<y - Offset>>
      [] wrapper = "filter" -> FilterSetter(y)
      [] wrapper = "select" -> <<SelectSetter(y)>>

\* The values a set on the Mapping is tried with.
Outputs ==
    CASE wrapper = "mapping" -> {v + Offset : v \in Values}
      [] wrapper = "filter" -> Values
      [] wrapper = "select" -> {IfTrue, IfFalse, Neither}
      [] OTHER -> {}

NewRegistry == [id |-> 1, map |-> <<>>]

\* The closure Cached::new registers on its source.
CacheClosure == [k |-> "cache", arg |-> 0]

\* The registry of the source once the derived signal is built: Cached::new
\* registers its closure at once, the others register nothing before watch.
SourceRegistry(w) ==
    IF w = "cached" THEN Register(NewRegistry, CacheClosure) ELSE NewRegistry

\* The parts of the Container state the derived signals never touch.
cidle == <<kind, stack, log, returned, regAt, cancelAt, last>>

tidle == <<now, insts, guardCells, timerCells, throttledCells, dregs, tasks,
           uplog, dlog>>

\* The state once the source Container and the signal w built on it exist.
InitWrapped(w) ==
    /\ wrapper = w
    /\ srcMeta \in (IF wrapper \in {"cached", "distinct"}
                    THEN Metas ELSE {EmptyMeta})
    /\ kind = "borrow"
    /\ value = 0
    /\ id = SourceRegistry(wrapper).id
    /\ map = SourceRegistry(wrapper).map
    /\ stack = <<>>
    /\ panicked = "no"
    /\ calls = 0
    /\ log = <<>>
    /\ returned = {}
    /\ regAt = [i \in {} |-> 0]
    /\ cancelAt = [i \in {} |-> 0]
    /\ last = NoOp
    /\ now = 0
    /\ insts = <<>>
    /\ guardCells = <<>>
    /\ timerCells = <<>>
    /\ throttledCells = <<>>
    /\ dregs = <<>>
    /\ tasks = <<>>
    /\ uplog = <<>>
    /\ dlog = <<>>
    /\ got = NoGet
    /\ cells = [cache |-> <<>>, last |-> <<>>, latest |-> <<>>, regs |-> <<>>]
    /\ bside = [value |-> 0, id |-> 1, map |-> <<>>]
    /\ sets = <<>>
    /\ xlog = <<>>
    /\ srcGets = 0

InitDerived == \E w \in Deriveds : InitWrapped(w)

\* The part of the state a notification works on.
DState == [cells |-> cells, xlog |-> xlog, panicked |-> panicked]

\* A watcher of the user is invoked: it records the context it receives.
\* n is the set that caused the notification.
Invoke(s, w, v, m, n) ==
    [s EXCEPT !.xlog = Append(@, [w |-> w, v |-> v, m |-> m, n |-> n])]

\* A closure that leaves the cache as it is.
CacheClosureSkip(s, v) == s

\* The closure of Cached::new: *cache.borrow_mut() = Some(value)
CacheClosureRun(s, v) == [s EXCEPT !.cells.cache = <<v>>]

\* let last_value = last_value_store.borrow(): the Ref is a local of the
\* closure and lives to its end, so the shared borrow is still held where
\* the closure calls last_value_store.borrow_mut(), in both branches.
LastValueBorrowed == TRUE

\* The closure Distinct::watch registers on the source for watcher w.
DistinctClosure(s, w, v, m, n) ==
    IF s.cells.last # <<>> /\ s.cells.last[1] = v
    THEN s
    ELSE IF LastValueBorrowed
         THEN [s EXCEPT !.panicked = "distinct"]
         ELSE Invoke([s EXCEPT !.cells.last = <<v>>], w, v, m, n)

\* A closure of Zip::watch that does not note the value it receives.
ZipClosureStale(s, side, z, v, m, n) ==
    LET l == s.cells.latest[z]
    IN  Invoke(s, s.cells.regs[z].id,
               IF side = "a" THEN <<v, l.b>> ELSE <<l.a, v>>, m, n)

\* The closures of Zip::watch call z, on the first Container (side "a") and
\* on the second (side "b"): store the value as the latest of its side, and
\* call the watcher with it and the latest of the other side.
ZipClosure(s, side, z, v, m, n) ==
    LET l == IF side = "a" THEN [s.cells.latest[z] EXCEPT !.a = v]
             ELSE [s.cells.latest[z] EXCEPT !.b = v]
    IN  Invoke([s EXCEPT !.cells.latest[z] = l], s.cells.regs[z].id,
               <<l.a, l.b>>, m, n)

\* A closure that hands on the value of the source as it is.
MappingClosureRaw(s, w, v, m, n) == Invoke(s, w, v, m, n)

\* The closure Mapping::watch registers on the source for watcher w:
\* watcher(Context::new(getter(value), metadata))
MappingClosure(s, w, v, m, n) == Invoke(s, w, Getter(v), m, n)

\* One callback of the registry is invoked with value v and metadata m.
Deliver(s, e, v, m, n) ==
    CASE e.cb.k = "log" -> Invoke(s, e.id, v, m, n)
      [] e.cb.k = "cache" -> CacheClosureRun(s, v)
      [] e.cb.k = "distinct" -> DistinctClosure(s, e.id, v, m, n)
      [] e.cb.k = "zip" ->
            ZipClosure(s, e.cb.arg.side, e.cb.arg.z, v, m, n)
      [] e.cb.k = "mapping" -> MappingClosure(s, e.id, v, m, n)

RECURSIVE RunDerived(_, _, _, _, _)
\* WatcherManagerInner::notify: every callback in key order; a panic in a
\* callback unwinds through notify and the rest is not invoked.
RunDerived(s, entries, v, m, n) ==
    IF entries = <<>> \/ s.panicked # "no" THEN s
    ELSE RunDerived(Deliver(s, Head(entries), v, m, n), Tail(entries),
                    v, m, n)

\* Container::set(v) on the source, called by the user (via = "source") or
\* by the setter of a Mapping that was given y (via = "mapping").
ContainerSet(v, via, y) ==
    /\ value' = v
    /\ calls' = calls + 1
    /\ LET m == SetMeta \cup srcMeta
           s == RunDerived(DState, Snapshot(map), v, m, Len(sets) + 1)
       IN  /\ cells' = s.cells
           /\ xlog' = s.xlog
           /\ panicked' = s.panicked
           /\ sets' = Append(sets, [on |-> "a", via |-> via, y |-> y,
                                    v |-> v, m |-> m, fired |-> TRUE,
                                    rec |-> cells.last, old |-> value,
                                    k |-> calls + 1])
    /\ srcGets' = 0
    /\ got' = NoGet
    /\ UNCHANGED <<id, map, bside, cidle, wrapper, srcMeta, tidle>>

\* The user sets the source Container.
XSet(v) ==
    /\ panicked = "no"
    /\ Len(sets) < MaxSets
    /\ ContainerSet(v, "source", v)

\* A Cached::watch that registers nothing.
CachedWatchNothing(inner, cb) == inner

\* Cached::watch: self.source.watch(watcher)
CachedWatch(inner, cb) == Register(inner, cb)

\* How a watch call through the derived signal (or on the source itself)
\* registers the watcher of the user.
WatchVia(via, inner) ==
    CASE via = "source" -> Register(inner, [k |-> "log", arg |-> 0])
      [] via = "cached" -> CachedWatch(inner, [k |-> "log", arg |-> 0])
      [] via = "distinct" -> Register(inner, [k |-> "distinct", arg |-> 0])
      [] via = "mapping" -> Register(inner, [k |-> "mapping", arg |-> 0])

Vias ==
    CASE wrapper = "cached" -> {"source", "cached"}
      [] wrapper = "distinct" -> {"source", "distinct"}
      [] wrapper = "zip" -> {}
      [] wrapper \in Mappings -> {"source", "mapping"}
      [] wrapper = "container" -> {"source"}

\* watch, on the source or through the derived signal.  The call is noted
\* in regs with the identifier its guard holds.
XWatch(via) ==
    /\ panicked = "no"
    /\ Len(cells.regs) < MaxDown
    /\ LET r == WatchVia(via, Inner) IN
        /\ id' = r.id
        /\ map' = r.map
    /\ cells' = [cells EXCEPT !.regs =
                    Append(@, [via |-> via, at |-> Len(sets), id |-> id,
                               until |-> -1])]
    /\ got' = NoGet
    /\ UNCHANGED <<value, calls, panicked, bside, sets, xlog, srcGets, cidle,
                   wrapper, srcMeta, tidle>>

\* The guard of watch call r is dropped.
XDrop(r) ==
    /\ panicked = "no"
    /\ cells.regs[r].until = -1
    /\ cells.regs[r].via # "zip"
    /\ LET c == Cancel(Inner, cells.regs[r].id) IN
        /\ id' = c.id
        /\ map' = c.map
    /\ cells' = [cells EXCEPT !.regs[r].until = Len(sets)]
    /\ got' = NoGet
    /\ UNCHANGED <<value, calls, panicked, bside, sets, xlog, srcGets, cidle,
                   wrapper, srcMeta, tidle>>

\* Container::set(v) on the second Container of the Zip.
ZSetB(v) ==
    /\ wrapper = "zip"
    /\ panicked = "no"
    /\ Len(sets) < MaxSets
    /\ bside' = [bside EXCEPT !.value = v]
    /\ LET m == SetMeta
           s == RunDerived(DState, Snapshot(bside.map), v, m, Len(sets) + 1)
       IN  /\ cells' = s.cells
           /\ xlog' = s.xlog
           /\ panicked' = s.panicked
           /\ sets' = Append(sets, [on |-> "b", via |-> "source", y |-> v,
                                    v |-> v, m |-> m, fired |-> TRUE,
                                    rec |-> cells.last, old |-> bside.value,
                                    k |-> calls])
    /\ got' = NoGet
    /\ UNCHANGED <<value, calls, id, map, srcGets, cidle, wrapper, srcMeta,
                   tidle>>

\* Zip::watch: the latest values are seeded with get of each side, then a
\* closure is registered on each Container.
ZWatch ==
    /\ wrapper = "zip"
    /\ panicked = "no"
    /\ Len(cells.regs) < MaxDown
    /\ LET z == Len(cells.regs) + 1
           ra == Register(Inner, [k |-> "zip", arg |-> [side |-> "a", z |-> z]])
           rb == Register([id |-> bside.id, map |-> bside.map],
                          [k |-> "zip", arg |-> [side |-> "b", z |-> z]])
       IN  /\ id' = ra.id
           /\ map' = ra.map
           /\ bside' = [bside EXCEPT !.id = rb.id, !.map = rb.map]
           /\ cells' = [cells EXCEPT
                  !.latest = Append(@, [a |-> ContainerGet, b |-> bside.value]),
                  !.regs = Append(@, [via |-> "zip", at |-> Len(sets),
                                      id |-> id, idb |-> bside.id,
                                      until |-> -1])]
    /\ got' = NoGet
    /\ UNCHANGED <<value, calls, panicked, sets, xlog, srcGets, cidle,
                   wrapper, srcMeta, tidle>>

\* The guard of Zip::watch call r, a pair of guards, is dropped.
ZDrop(r) ==
    /\ panicked = "no"
    /\ cells.regs[r].until = -1
    /\ cells.regs[r].via = "zip"
    /\ LET c == Cancel(Inner, cells.regs[r].id)
           cb == Cancel([id |-> bside.id, map |-> bside.map],
                        cells.regs[r].idb)
       IN  /\ id' = c.id
           /\ map' = c.map
           /\ bside' = [bside EXCEPT !.id = cb.id, !.map = cb.map]
    /\ cells' = [cells EXCEPT !.regs[r].until = Len(sets)]
    /\ got' = NoGet
    /\ UNCHANGED <<value, calls, panicked, sets, xlog, srcGets, cidle,
                   wrapper, srcMeta, tidle>>

\* Mapping::set(y): (self.setter)(&self.binding, y).  A setter that does
\* not call set leaves everything as it is; the call is noted in sets.
MappingSet(y) ==
    /\ wrapper \in Mappings
    /\ panicked = "no"
    /\ Len(sets) < MaxSets
    /\ IF Setter(y) # <<>>
       THEN ContainerSet(Setter(y)[1], "mapping", y)
       ELSE /\ sets' = Append(sets, [on |-> "a", via |-> "mapping", y |-> y,
                                     v |-> value, m |-> SetMeta,
                                     fired |-> FALSE, rec |-> cells.last,
                                     old |-> value, k |-> calls])
            /\ got' = NoGet
            /\ UNCHANGED <<cvars, tvars, cells, bside, xlog, srcGets>>

\* Mapping::get: (self.getter)(self.binding.get())
MappingGet ==
    /\ wrapper \in Mappings
    /\ panicked = "no"
    /\ got' = [who |-> "mapping", c |-> 1, v |-> Getter(ContainerGet),
               src |-> TRUE]
    /\ UNCHANGED <<cvars, tvars, yvars>>

\* A lookup that never finds the cached value.
CacheLookupMiss(cache) == <<>>

\* if let Some(ref cached_value) = *cache
CacheLookup(cache) == cache

\* Cached::get on the instance or its clone c; both hold the same cache cell.
CachedGet(c) ==
    /\ wrapper = "cached"
    /\ panicked = "no"
    /\ IF CacheLookup(cells.cache) # <<>>
       THEN /\ got' = [who |-> "cached", c |-> c,
                       v |-> CacheLookup(cells.cache)[1], src |-> FALSE]
            /\ UNCHANGED <<cells, srcGets>>
       ELSE /\ got' = [who |-> "cached", c |-> c, v |-> ContainerGet,
                       src |-> TRUE]
            /\ srcGets' = srcGets + 1
            /\ cells' = [cells EXCEPT !.cache = <<ContainerGet>>]
    /\ UNCHANGED <<cvars, tvars, bside, sets, xlog>>

NextDerived ==
    \/ \E v \in Values : XSet(v)
    \/ \E via \in Vias : XWatch(via)
    \/ \E r \in 1..Len(cells.regs) : XDrop(r)
    \/ \E c \in 1..2 : CachedGet(c)
    \/ \E v \in Values : ZSetB(v)
    \/ ZWatch
    \/ \E r \in 1..Len(cells.regs) : ZDrop(r)
    \/ \E y \in Outputs : MappingSet(y)
    \/ MappingGet

SpecDerived == InitDerived /\ [][NextDerived]_vars

\* =============================================================== Binding
\* What a Binding<T> wraps: the Container itself, or a Mapping built on it.
Bindings == {"container"} \cup Mappings

\* Binding::as_container: `&self.0 as &dyn Any` makes the Box<dyn BindingImpl>
\* the Any, so downcast_ref::<Container<T>>() looks for a Container in a Box
\* and finds none, whatever the Binding wraps.
AsContainer == FALSE

\* The closures given to handle: one that leaves the value, one that
\* changes it to the other value of its kind, and one that makes it a value
\* select knows neither as if_true nor as if_false.
Mutators == {"keep", "flip", "other"}

MutatorsOf(w) == IF w = "select" THEN Mutators ELSE Mutators \ {"other"}

\* handler(&mut temp)
Mutate(f, y) ==
    CASE f = "keep" -> y
      [] f = "other" -> Neither
      [] f = "flip" /\ wrapper = "mapping" -> 2 * Offset + 1 - y
      [] f = "flip" /\ wrapper = "select" ->
            IF y = IfTrue THEN IfFalse ELSE IfTrue
      [] f = "flip" /\ wrapper \in {"container", "filter"} -> 1 - y

\* Binding::get: self.0.get()
BindingGet ==
    IF wrapper = "container" THEN ContainerGet ELSE Getter(ContainerGet)

\* Binding::set(y): self.0.set(y), which is Container::set or Mapping::set.
\* The call is noted in sets under via.
BindingSet(y, via) ==
    IF wrapper = "container" THEN ContainerSet(y, via, y)
    ELSE IF Setter(y) # <<>> THEN ContainerSet(Setter(y)[1], via, y)
    ELSE /\ sets' = Append(sets, [on |-> "a", via |-> via, y |-> y,
                                  v |-> value, m |-> SetMeta,
                                  fired |-> FALSE, rec |-> cells.last,
                                  old |-> value, k |-> calls])
         /\ got' = NoGet
         /\ UNCHANGED <<cvars, tvars, cells, bside, xlog, srcGets>>

\* A handle that mutates its temporary and never writes it back.
HandleForget(y, f) ==
    /\ sets' = Append(sets, [on |-> "a", via |-> f, y |-> y,
                             v |-> value, m |-> SetMeta,
                             fired |-> FALSE, rec |-> cells.last,
                             old |-> value, k |-> calls])
    /\ got' = NoGet
    /\ UNCHANGED <<cvars, tvars, cells, bside, xlog, srcGets>>

\* The else branch of handle, after the handler: self.set(temp)
HandleStore(y, f) == BindingSet(y, f)

\* The branch of handle for a Container: the handler works on the value in
\* place, then container.watchers.notify(|| self.get(), &Metadata::new()).
HandleInPlace(y, f) == ContainerSet(y, f, y)

\* Binding::handle(handler).  The call is noted in sets with the mutator as
\* its via and the mutated value as y.
Handle(f) ==
    /\ wrapper \in Bindings
    /\ f \in MutatorsOf(wrapper)
    /\ panicked = "no"
    /\ Len(sets) < MaxSets
    /\ IF wrapper = "container" /\ AsContainer
       THEN HandleInPlace(Mutate(f, value), f)
       ELSE HandleStore(Mutate(f, BindingGet), f)

\* The user reads the Binding.
BindingRead ==
    /\ wrapper \in Bindings
    /\ panicked = "no"
    /\ got' = [who |-> "binding", c |-> 1, v |-> BindingGet, src |-> TRUE]
    /\ UNCHANGED <<cvars, tvars, yvars>>

InitHandle == \E w \in Bindings : InitWrapped(w)

NextHandle ==
    \/ \E f \in Mutators : Handle(f)
    \/ \E via \in Vias : XWatch(via)
    \/ \E r \in 1..Len(cells.regs) : XDrop(r)
    \/ BindingRead

SpecHandle == InitHandle /\ [][NextHandle]_vars

\* ================================================================== List
\* The List state is kept in cells (vecs: the Vec cells behind the Rc,
\* mgrs: the registries, handles: the List values, each naming its Vec cell
\* and its registry, regs: the watch calls), sets (the calls made on the
\* List), xlog (what the watchers of the user received; n is the call that
\* notified, 0 for the invocation made by watch itself), calls (the number
\* of notify calls) and kind (whether the build checks integer overflow).

\* usize::MAX, of a usize of three bits.
USizeMax == 7

\* The longest Vec of a run.
MaxLen == 6

\* The number of calls made on the List in a run.
MaxOps == 2

\* The number of watch calls of a run.
MaxWatch == 1

\* The elements pushed and inserted.
Items == {6}

\* The Vec a List is built from: List::new() or List::from(vec).
InitialLists == {<<>>, <<1, 2, 3, 4, 5>>}

\* The indices insert and remove are called with: the front, the middle and
\* one past every Vec of a run.
Indexes == {0, 2, MaxLen}

\* overflow-checks on (debug profile) or off (release profile)
Builds == {"checked", "wrapping"}

Unbounded == [k |-> "un", n |-> 0]
Included(n) == [k |-> "in", n |-> n]
Excluded(n) == [k |-> "ex", n |-> n]

\* The ranges watch is called with: .., 1..4, ..=1, 4..2, ..=usize::MAX and
\* (Excluded(usize::MAX), Unbounded).
Ranges ==
    {[s |-> Unbounded, e |-> Unbounded],
     [s |-> Included(1), e |-> Excluded(4)],
     [s |-> Unbounded, e |-> Included(1)],
     [s |-> Included(4), e |-> Excluded(2)],
     [s |-> Unbounded, e |-> Included(USizeMax)],
     [s |-> Excluded(USizeMax), e |-> Unbounded]}

Min(a, b) == IF a < b THEN a ELSE b

\* n + 1 on usize: <<n + 1>>; past usize::MAX it panics (<<>>) in a build
\* that checks overflow and wraps to 0 in one that does not.
Add1(n) ==
    IF n < USizeMax THEN <<n + 1>>
    ELSE IF kind = "checked" THEN <<>> ELSE <<(n + 1) % (USizeMax + 1)>>

\* let start = match start_bound { .. }
StartOf(b) ==
    CASE b.k = "in" -> <<b.n>>
      [] b.k = "ex" -> Add1(b.n)
      [] b.k = "un" -> <<0>>

\* let end = match end_bound { .. }
EndOf(b, len) ==
    CASE b.k = "in" ->
            IF Add1(b.n) = <<>> THEN <<>> ELSE <<Min(Add1(b.n)[1], len)>>
      [] b.k = "ex" -> <<Min(b.n, len)>>
      [] b.k = "un" -> <<len>>

\* A range test that forgets the length.
InRangeUnclamped(start, end, len) == start < end

\* if start < len && start < end
InRange(start, end, len) == start < len /\ start < end

\* What the range computation of watch and of its closure comes to on the
\* Vec vec: the watcher is called with a slice, skipped, or the computation
\* panics.
Slice(range, vec) ==
    LET st == StartOf(range.s)
        en == EndOf(range.e, Len(vec))
    IN  IF st = <<>> \/ en = <<>> THEN [out |-> "panic"]
        ELSE IF InRange(st[1], en[1], Len(vec))
        THEN [out |-> "call", v |-> SubSeq(vec, st[1] + 1, Min(en[1], Len(vec)))]
        ELSE [out |-> "skip"]

\* The closure watch registers: it captures the Vec cell and the range.
RangeClosure(vec, range) == [k |-> "range", arg |-> [vec |-> vec, range |-> range]]

\* The closure of watch is invoked by notify: it borrows its Vec cell,
\* computes the slice and calls the watcher of the user with it and the
\* metadata of the context.
RangeClosureRun(s, e, vecs, m, n) ==
    LET sl == Slice(e.cb.arg.range, vecs[e.cb.arg.vec])
    IN  CASE sl.out = "call" ->
                [s EXCEPT !.xlog = Append(@, [w |-> e.id, v |-> sl.v,
                                              m |-> m, n |-> n])]
          [] sl.out = "skip" -> s
          [] sl.out = "panic" -> [s EXCEPT !.panicked = "overflow"]

RECURSIVE RunList(_, _, _, _, _)
\* WatcherManagerInner::notify on the registry of a List.
RunList(s, entries, vecs, m, n) ==
    IF entries = <<>> \/ s.panicked # "no" THEN s
    ELSE RunList(RangeClosureRun(s, Head(entries), vecs, m, n),
                 Tail(entries), vecs, m, n)

\* The Vec cell and the registry of handle h.
VecOf(h) == cells.vecs[cells.handles[h].vec]
MgrOf(h) == cells.mgrs[cells.handles[h].mgr]

\* || Context::from(vec_clone.borrow().to_vec()): the value notify hands to
\* each callback is the Vec behind handle h when the callback is invoked.
NotifyValue(vecs, h) == vecs[cells.handles[h].vec]

\* What the List state does not use.
lidle == <<value, id, map, cidle, tvars, bside, srcGets>>

lidle2 == <<id, map, cidle, tvars, bside, srcGets>>

\* The state with nothing registered, set or delivered yet: w is what was
\* built, k the build and c its cells.
InitState(w, k, c) ==
    /\ wrapper = w
    /\ srcMeta = EmptyMeta
    /\ kind = k
    /\ cells = c
    /\ value = 0
    /\ id = 1
    /\ map = <<>>
    /\ stack = <<>>
    /\ panicked = "no"
    /\ calls = 0
    /\ log = <<>>
    /\ returned = {}
    /\ regAt = [i \in {} |-> 0]
    /\ cancelAt = [i \in {} |-> 0]
    /\ last = NoOp
    /\ now = 0
    /\ insts = <<>>
    /\ guardCells = <<>>
    /\ timerCells = <<>>
    /\ throttledCells = <<>>
    /\ dregs = <<>>
    /\ tasks = <<>>
    /\ uplog = <<>>
    /\ dlog = <<>>
    /\ got = NoGet
    /\ bside = [value |-> 0, id |-> 1, map |-> <<>>]
    /\ sets = <<>>
    /\ xlog = <<>>
    /\ srcGets = 0

\* The state once a List (or a Container) exists: one Vec (value) cell,
\* one empty registry and one handle on both.
InitHeap(w, vecs, builds) ==
    \E vec \in vecs, k \in builds :
        InitState(w, k, [vecs |-> <<vec>>, mgrs |-> <<NewRegistry>>,
                         handles |-> <<[vec |-> 1, mgr |-> 1]>>,
                         regs |-> <<>>])

\* The end of a call on handle h that leaves the Vec as after and calls
\* notify when fire holds: self.watchers.notify(|| Context::from(
\* vec_clone.borrow().to_vec())).  The call is noted in sets.
ListDone(h, op, arg, res, after, fire) ==
    LET vecs2 == [cells.vecs EXCEPT ![cells.handles[h].vec] = after]
        s == IF fire
             THEN RunList([xlog |-> xlog, panicked |-> panicked],
                          Snapshot(MgrOf(h).map), vecs2, EmptyMeta,
                          Len(sets) + 1)
             ELSE [xlog |-> xlog, panicked |-> panicked]
        k == IF fire THEN calls + 1 ELSE calls
    IN  /\ cells' = [cells EXCEPT !.vecs = vecs2]
        /\ xlog' = s.xlog
        /\ panicked' = s.panicked
        /\ calls' = k
        /\ sets' = Append(sets, [op |-> op, h |-> h, arg |-> arg,
                                 res |-> res, before |-> VecOf(h),
                                 after |-> after, k |-> k,
                                 ctx |-> IF fire
                                         THEN <<NotifyValue(vecs2, h)>>
                                         ELSE <<>>])
        /\ got' = NoGet
        /\ UNCHANGED lidle

\* A call that panics before it changes anything.
ListPanic(why) ==
    /\ panicked' = why
    /\ got' = NoGet
    /\ UNCHANGED <<calls, lidle, cells, sets, xlog>>

ListReady(h) ==
    /\ wrapper = "list"
    /\ h \in 1..Len(cells.handles)
    /\ panicked = "no"

\* List::push
Push(h, v) ==
    /\ ListReady(h)
    /\ Len(sets) < MaxOps
    /\ Len(VecOf(h)) < MaxLen
    /\ ListDone(h, "push", v, <<>>, Append(VecOf(h), v), TRUE)

\* A pop that notifies whatever it found.
PopNotifiesAlways(result) == TRUE

\* if result.is_some()
PopNotifies(result) == result # <<>>

\* List::pop: the result is <<x>> for Some(x) and <<>> for None.
Pop(h) ==
    /\ ListReady(h)
    /\ Len(sets) < MaxOps
    /\ LET vec == VecOf(h)
           result == IF vec = <<>> THEN <<>> ELSE <<vec[Len(vec)]>>
           after == IF vec = <<>> THEN <<>> ELSE SubSeq(vec, 1, Len(vec) - 1)
       IN  ListDone(h, "pop", 0, result, after, PopNotifies(result))

\* Vec::insert(index, v), for index <= len
InsertAt(vec, i, v) ==
    SubSeq(vec, 1, i) \o <<v>> \o SubSeq(vec, i + 1, Len(vec))

\* Vec::remove(index), for index < len
RemoveAt(vec, i) == SubSeq(vec, 1, i) \o SubSeq(vec, i + 2, Len(vec))

\* List::insert: Vec::insert panics when index > len.
Insert(h, i, v) ==
    /\ ListReady(h)
    /\ Len(sets) < MaxOps
    /\ Len(VecOf(h)) < MaxLen
    /\ IF i > Len(VecOf(h)) THEN ListPanic("index")
       ELSE ListDone(h, "insert", [i |-> i, v |-> v], <<>>,
                     InsertAt(VecOf(h), i, v), TRUE)

\* List::remove: Vec::remove panics when index >= len.
RemoveIndex(h, i) ==
    /\ ListReady(h)
    /\ Len(sets) < MaxOps
    /\ IF i >= Len(VecOf(h)) THEN ListPanic("index")
       ELSE ListDone(h, "remove", i, <<VecOf(h)[i + 1]>>,
                     RemoveAt(VecOf(h), i), TRUE)

\* List::clear
Clear(h) ==
    /\ ListReady(h)
    /\ Len(sets) < MaxOps
    /\ LET was_empty == VecOf(h) = <<>>
       IN  ListDone(h, "clear", 0, <<>>, <<>>, ~was_empty)

\* A watch that only registers.
WatchFirstCallNever(sl) == FALSE

\* watch calls the watcher at once when the range is valid and non-empty.
WatchFirstCall(sl) == sl.out = "call"

\* Collection::watch for List, on handle h: the watcher is called with the
\* current slice, then the closure is registered.  A range computation that
\* panics ends the call before anything is registered.  The call is noted
\* in regs with the identifier its guard holds.
ListWatch(h, range) ==
    /\ ListReady(h)
    /\ Len(cells.regs) < MaxWatch
    /\ LET sl == Slice(range, VecOf(h))
           vi == cells.handles[h].vec
           mi == cells.handles[h].mgr
       IN  IF sl.out = "panic" THEN ListPanic("overflow")
           ELSE /\ xlog' = IF WatchFirstCall(sl)
                           THEN Append(xlog, [w |-> MgrOf(h).id, v |-> sl.v,
                                              m |-> EmptyMeta, n |-> 0])
                           ELSE xlog
                /\ cells' = [cells EXCEPT
                      !.mgrs[mi] = Register(@, RangeClosure(vi, range)),
                      !.regs = Append(@, [h |-> h, range |-> range,
                                          at |-> Len(sets), id |-> MgrOf(h).id,
                                          mgr |-> mi, until |-> -1])]
                /\ got' = NoGet
                /\ UNCHANGED <<panicked, calls, sets, lidle>>

\* The guard of watch call r is dropped: this.cancel(id)
ListDrop(r) ==
    /\ wrapper \in {"list", "binding", "computed"}
    /\ panicked = "no"
    /\ r \in 1..Len(cells.regs)
    /\ cells.regs[r].until = -1
    /\ cells' = [cells EXCEPT
          !.mgrs[cells.regs[r].mgr] = Cancel(@, cells.regs[r].id),
          !.regs[r].until = Len(sets)]
    /\ got' = NoGet
    /\ UNCHANGED <<panicked, calls, sets, xlog, lidle>>

InitList == InitHeap("list", InitialLists, Builds)

NextList ==
    \/ \E v \in Items : Push(1, v)
    \/ Pop(1)
    \/ \E i \in Indexes, v \in Items : Insert(1, i, v)
    \/ \E i \in Indexes : RemoveIndex(1, i)
    \/ Clear(1)
    \/ \E range \in Ranges : ListWatch(1, range)
    \/ \E r \in 1..Len(cells.regs) : ListDrop(r)

SpecList == InitList /\ [][NextList]_vars

\* ================================================================ clones
\* The number of List or Binding values of a run, clones included.
MaxHandles == 2

\* A clone with a Vec cell and a registry of its own.
ClonedDeep(c, h) ==
    [c EXCEPT !.vecs = Append(@, c.vecs[c.handles[h].vec]),
              !.mgrs = Append(@, NewRegistry),
              !.handles = Append(@, [vec |-> Len(c.vecs) + 1,
                                     mgr |-> Len(c.mgrs) + 1])]

\* Clone for List (vec: self.vec.clone(), watchers: self.watchers.clone())
\* and the derived Clone of Container: both fields are Rc handles, so the
\* clone names the cells of the original.
Cloned(c, h) == [c EXCEPT !.handles = Append(@, c.handles[h])]

\* List::clone, or Binding::clone of a Container-backed Binding:
\* self.0.cloned_binding() is Binding::custom(self.clone()).
CloneHandle(h) ==
    /\ wrapper \in {"list", "binding"}
    /\ h \in 1..Len(cells.handles)
    /\ panicked = "no"
    /\ Len(cells.handles) < MaxHandles
    /\ cells' = Cloned(cells, h)
    /\ got' = NoGet
    /\ UNCHANGED <<panicked, calls, sets, xlog, lidle>>

\* Collection::len for List
ListLen(h) ==
    /\ ListReady(h)
    /\ got' = [who |-> "len", h |-> h, v |-> Len(VecOf(h))]
    /\ UNCHANGED <<cvars, tvars, yvars>>

\* Collection::get for List: <<x>> for Some(x), <<>> for None.
ListGet(h, i) ==
    /\ ListReady(h)
    /\ got' = [who |-> "get", h |-> h, i |-> i,
               v |-> IF i < Len(VecOf(h)) THEN <<VecOf(h)[i + 1]>> ELSE <<>>]
    /\ UNCHANGED <<cvars, tvars, yvars>>

BindingReady(h) ==
    /\ wrapper \in {"binding", "computed"}
    /\ h \in 1..Len(cells.handles)
    /\ panicked = "no"

\* Binding::set on a Container-backed Binding, through handle h:
\* Container::set replaces the value and notifies with it.
BSet(h, v) ==
    /\ BindingReady(h)
    /\ Len(sets) < MaxOps
    /\ LET s == RunDerived(DState, Snapshot(MgrOf(h).map), v, SetMeta,
                           Len(sets) + 1)
       IN  /\ cells' = [cells EXCEPT !.vecs[cells.handles[h].vec] = v]
           /\ xlog' = s.xlog
           /\ panicked' = s.panicked
    /\ calls' = calls + 1
    /\ sets' = Append(sets, [op |-> "set", h |-> h, arg |-> v, res |-> <<>>,
                             before |-> VecOf(h), after |-> v,
                             k |-> calls + 1, ctx |-> <<v>>])
    /\ got' = NoGet
    /\ UNCHANGED lidle

\* Binding::get through handle h: Container::get
BGet(h) ==
    /\ BindingReady(h)
    /\ got' = [who |-> "bget", h |-> h, v |-> VecOf(h)]
    /\ UNCHANGED <<cvars, tvars, yvars>>

\* Binding::watch through handle h: Container::watch registers the watcher.
BWatch(h) ==
    /\ BindingReady(h)
    /\ Len(cells.regs) < MaxWatch
    /\ cells' = [cells EXCEPT
          !.mgrs[cells.handles[h].mgr] = Register(@, [k |-> "log", arg |-> 0]),
          !.regs = Append(@, [h |-> h, via |-> "container",
                              at |-> Len(sets), id |-> MgrOf(h).id,
                              mgr |-> cells.handles[h].mgr, until |-> -1])]
    /\ got' = NoGet
    /\ UNCHANGED <<panicked, calls, sets, xlog, lidle>>

\* The range the watchers of the clones are registered with: ..
CloneRanges == {[s |-> Unbounded, e |-> Unbounded]}

\* The List is built by List::new().  No range of the clones has a bound at
\* usize::MAX, so one build is taken.
InitClones ==
    \/ InitHeap("list", {<<>>}, {"checked"})
    \/ InitHeap("binding", {0}, {"checked"})

NextClones ==
    \/ \E h \in 1..MaxHandles : CloneHandle(h)
    \/ \E h \in 1..MaxHandles, v \in Items : Push(h, v)
    \/ \E h \in 1..MaxHandles : Pop(h)
    \/ \E h \in 1..MaxHandles : ListLen(h)
    \/ \E h \in 1..MaxHandles : ListGet(h, 0)
    \/ \E h \in 1..MaxHandles, range \in CloneRanges : ListWatch(h, range)
    \/ \E r \in 1..Len(cells.regs) : ListDrop(r)
    \/ \E h \in 1..MaxHandles, v \in Values : BSet(h, v)
    \/ \E h \in 1..MaxHandles : BGet(h)
    \/ \E h \in 1..MaxHandles : BWatch(h)

SpecClones == InitClones /\ [][NextClones]_vars

\* ============================================================== Computed
\* A Computed is a Box holding a signal.  The signal wrapped here is a
\* Container, of which the user keeps handle 1; cells.boxes holds, for each
\* Computed, the Container inside its Box.

\* A clone whose Box holds a Container with cells of its own.
ComputedClonedDeep(c, b) ==
    [c EXCEPT !.vecs = Append(@, c.vecs[c.boxes[b].vec]),
              !.mgrs = Append(@, NewRegistry),
              !.boxes = Append(@, [vec |-> Len(c.vecs) + 1,
                                   mgr |-> Len(c.mgrs) + 1])]

\* ComputedImpl::cloned: self.clone().computed(), and the Clone of the
\* Container clones its two Rc fields.
ComputedCloned(c, b) == [c EXCEPT !.boxes = Append(@, c.boxes[b])]

\* The state once a Container exists and a clone of it was made a Computed.
InitComputed ==
    InitState("computed", "borrow",
              [vecs |-> <<0>>, mgrs |-> <<NewRegistry>>,
               handles |-> <<[vec |-> 1, mgr |-> 1]>>,
               boxes |-> <<[vec |-> 1, mgr |-> 1]>>, regs |-> <<>>])

ComputedReady(b) ==
    /\ wrapper = "computed"
    /\ b \in 1..Len(cells.boxes)
    /\ panicked = "no"

\* Clone for Computed: Self(self.0.cloned())
ComputedClone(b) ==
    /\ ComputedReady(b)
    /\ Len(cells.boxes) < MaxHandles
    /\ cells' = ComputedCloned(cells, b)
    /\ got' = NoGet
    /\ UNCHANGED <<panicked, calls, sets, xlog, lidle>>

\* Signal::get for Computed: self.0.compute(), which is Signal::get of the
\* Container in the Box.
ComputedGet(b) ==
    /\ ComputedReady(b)
    /\ got' = [who |-> "cget", h |-> b, v |-> cells.vecs[cells.boxes[b].vec]]
    /\ UNCHANGED <<cvars, tvars, yvars>>

\* Signal::watch for Computed: self.0.add_watcher(Rc::new(watcher)), which
\* registers move |ctx| watcher(ctx) on the Container in the Box.
ComputedWatch(b) ==
    /\ ComputedReady(b)
    /\ Len(cells.regs) < MaxWatch
    /\ cells' = [cells EXCEPT
          !.mgrs[cells.boxes[b].mgr] = Register(@, [k |-> "log", arg |-> 0]),
          !.regs = Append(@, [h |-> b, via |-> "computed",
                              at |-> Len(sets),
                              id |-> cells.mgrs[cells.boxes[b].mgr].id,
                              mgr |-> cells.boxes[b].mgr, until |-> -1])]
    /\ got' = NoGet
    /\ UNCHANGED <<panicked, calls, sets, xlog, lidle>>

NextComputed ==
    \/ \E b \in 1..MaxHandles : ComputedClone(b)
    \/ \E b \in 1..MaxHandles : ComputedGet(b)
    \/ \E b \in 1..MaxHandles : ComputedWatch(b)
    \/ \E v \in Values : BSet(1, v)
    \/ BGet(1)
    \/ BWatch(1)
    \/ \E r \in 1..Len(cells.regs) : ListDrop(r)

SpecComputed == InitComputed /\ [][NextComputed]_vars

\* =========================================================== WatcherId
\* One registry, with the identifier in its width: id and map are the
\* fields of WatcherManagerInner, cells.regs the identifiers register has
\* returned, in the order of the calls.

\* WatcherId::MIN
IdMin == 1

\* An addition that starts again at WatcherId::MIN.
WrappingAdd1(n) == <<IF n < USizeMax THEN n + 1 ELSE IdMin>>

\* self.id.checked_add(1): <<n + 1>> for Some, <<>> for None
CheckedAdd1(n) == IF n < USizeMax THEN <<n + 1>> ELSE <<>>

\* WatcherManagerInner::default
InitIds == InitState("registry", "borrow", [regs |-> <<>>])

IdsReady ==
    /\ wrapper = "registry"
    /\ panicked = "no"

iidle == <<value, calls, cidle, tvars, bside, srcGets, sets, xlog>>

\* WatcherManagerInner::register: assign takes the current id and advances
\* it, or panics when there is no next id; then the watcher is put in the map
\* under the id taken.
IdRegister ==
    /\ IdsReady
    /\ IF CheckedAdd1(id) = <<>>
       THEN /\ panicked' = "id"
            /\ UNCHANGED <<id, map, cells>>
       ELSE /\ id' = CheckedAdd1(id)[1]
            /\ map' = InsertSorted(Remove(map, id),
                                   [id |-> id, cb |-> [k |-> "log", arg |-> 0]])
            /\ cells' = [cells EXCEPT !.regs = Append(@, id)]
            /\ UNCHANGED panicked
    /\ got' = NoGet
    /\ UNCHANGED iidle

\* WatcherManagerInner::cancel
IdCancel(i) ==
    /\ IdsReady
    /\ i \in Keys(map)
    /\ map' = Cancel(Inner, i).map
    /\ got' = NoGet
    /\ UNCHANGED <<id, cells, panicked, iidle>>

NextIds ==
    \/ IdRegister
    \/ \E i \in IdMin..USizeMax : IdCancel(i)

SpecIds == InitIds /\ [][NextIds]_vars

\* ========================================================== SignalStream
\* A SignalStream over a Container.  value is the Container, cells the
\* fields of the stream (guard: whether its watcher is registered, queue and
\* waker: the contents of the two cells, <<>> for None, initial_sent) and
\* the number of wake calls made so far; xlog is the sequence of polls and
\* sets, each with the number of wake calls made when it was over.

\* The number of polls of a run.
MaxPolls == 3

\* The wakers polls are made with.
Wakers == {1, 2}

\* SignalStream::new
InitStream ==
    InitState("stream", "borrow",
              [guard |-> FALSE, queue |-> <<>>, waker |-> <<>>,
               initial_sent |-> FALSE, wakes |-> 0])

StreamReady ==
    /\ wrapper = "stream"
    /\ panicked = "no"

Polls == SelectSeq(xlog, LAMBDA e : e.e = "poll")

\* A take that leaves the value in the queue.
QueueTakeKeeps(q) == q

\* queue.take(): what is left in the cell
QueueTake(q) == <<>>

\* Stream::poll_next with the waker w: the watcher is registered by the
\* first poll, the waker is stored, and the poll yields signal.get() the
\* first time and afterwards what it takes out of the queue, or Pending
\* (<<>>) when the queue is empty.
Poll(w) ==
    /\ StreamReady
    /\ Len(Polls) < MaxPolls
    /\ LET res == IF ~cells.initial_sent THEN <<ContainerGet>>
                  ELSE cells.queue
       IN  /\ cells' = [cells EXCEPT
                 !.guard = TRUE,
                 !.waker = <<w>>,
                 !.initial_sent = TRUE,
                 !.queue = IF ~cells.initial_sent THEN @ ELSE QueueTake(@)]
           /\ xlog' = Append(xlog, [e |-> "poll", w |-> w, res |-> res,
                                    wakes |-> cells.wakes])
    /\ got' = NoGet
    /\ UNCHANGED <<value, panicked, sets, calls, lidle2>>

\* A watcher that leaves a value that is waiting in the queue.
QueuePutIfEmpty(q, v) == IF q = <<>> THEN <<v>> ELSE q

\* *queue.borrow_mut() = Some(ctx.into_value()): what the cell holds then
QueuePut(q, v) == <<v>>

\* Container::set(v): the watcher of the stream, when registered, puts the
\* value in the queue and wakes the waker in the cell.
StreamSet(v) ==
    /\ StreamReady
    /\ Len(sets) < MaxSets
    /\ value' = v
    /\ sets' = Append(sets, [v |-> v])
    /\ LET woke == IF cells.guard THEN cells.waker ELSE <<>>
           n == cells.wakes + Len(woke)
       IN  /\ cells' = [cells EXCEPT
                 !.queue = IF cells.guard THEN QueuePut(@, v) ELSE @,
                 !.wakes = n]
           /\ xlog' = Append(xlog, [e |-> "set", v |-> v, woke |-> woke,
                                    wakes |-> n])
    /\ got' = NoGet
    /\ UNCHANGED <<panicked, calls, lidle2>>

NextStream ==
    \/ \E w \in Wakers : Poll(w)
    \/ \E v \in Values : StreamSet(v)

SpecStream == InitStream /\ [][NextStream]_vars

\* ============================================================== Metadata
\* A Metadata is a BTreeMap from TypeId to a value: here the sequence of its
\* entries [t, x] in key order.  The Metadata under test is cells.md, the
\* with calls made on it are noted in sets, the call just made in got.
Types == {"A", "B", "C"}

\* The values of each type.
Payloads == {1, 2}

\* The order of the TypeIds.
TypeRank(t) == CASE t = "A" -> 1 [] t = "B" -> 2 [] t = "C" -> 3

\* Metadata::new(): the empty map
NoMetadata == <<>>

\* BTreeMap::insert(key, value): the entry of the key is replaced, or put in
\* at the place of the key.
MapInsert(md, t, x) ==
    SelectSeq(md, LAMBDA e : TypeRank(e.t) < TypeRank(t))
        \o <<[t |-> t, x |-> x]>>
        \o SelectSeq(md, LAMBDA e : TypeRank(e.t) > TypeRank(t))

\* BTreeMap::get(key): <<x>> for Some(x), <<>> for None
MapGet(md, t) ==
    LET q == SelectSeq(md, LAMBDA e : e.t = t)
    IN  IF q = <<>> THEN <<>> ELSE <<q[1].x>>

\* An insert that keeps the value a type already has.
MetaInsertKeeps(md, t, x) ==
    IF MapGet(md, t) # <<>> THEN md ELSE MapInsert(md, t, x)

\* MetadataInner::insert: self.0.insert(TypeId::of::<T>(), Rc::new(value))
MetaInsert(md, t, x) == MapInsert(md, t, x)

\* MetadataInner::try_get: the entry of TypeId::of::<T>(), downcast and
\* cloned
MetaTryGet(md, t) == MapGet(md, t)

\* Metadata::with
MetaWith(md, t, x) == MetaInsert(md, t, x)

InitMeta == InitState("metadata", "borrow", [md |-> NoMetadata])

MetaReady ==
    /\ wrapper = "metadata"
    /\ panicked = "no"

\* md = md.with(x), x of type t
DoWith(t, x) ==
    /\ MetaReady
    /\ Len(sets) < MaxOps
    /\ cells' = [cells EXCEPT !.md = MetaWith(@, t, x)]
    /\ sets' = Append(sets, [t |-> t, x |-> x])
    /\ got' = [who |-> "with", t |-> t, x |-> x, pre |-> cells.md]
    /\ UNCHANGED <<panicked, xlog, calls, lidle>>

\* md.try_get::<T>()
DoTryGet(t) ==
    /\ MetaReady
    /\ got' = [who |-> "try_get", t |-> t, v |-> MetaTryGet(cells.md, t)]
    /\ UNCHANGED <<cvars, tvars, yvars>>

\* md.get::<T>(): self.try_get().expect(..)
DoGet(t) ==
    /\ MetaReady
    /\ got' = [who |-> "get", t |-> t, v |-> MetaTryGet(cells.md, t)]
    /\ panicked' = IF MetaTryGet(cells.md, t) = <<>> THEN "expect" ELSE "no"
    /\ UNCHANGED <<cells, sets, xlog, calls, lidle>>

NextMeta ==
    \/ \E t \in Types, x \in Payloads : DoWith(t, x)
    \/ \E t \in Types : DoTryGet(t)
    \/ \E t \in Types : DoGet(t)

SpecMeta == InitMeta /\ [][NextMeta]_vars

\* ================================================================= chain
\* A source Container followed by a chain of with, map, Binding::mapping,
\* zip (with a second Container as its other side), debounce and throttle,
\* each built on the one before, and one watcher at the end.  The state is
\* kept in value (the source), cells (chain: the stages, st: the state of
\* each stage, b: the second Container of each zip, watched: whether the
\* watcher is registered), sets (the sets made) and xlog (what the watcher
\* received, with the set that caused it and the stage it entered at).

\* The number of stages of a chain.
MaxChain == 2

WithStages == {[op |-> "with", t |-> "A", x |-> 1],
               [op |-> "with", t |-> "A", x |-> 2],
               [op |-> "with", t |-> "B", x |-> 1]}

Stages == WithStages \cup {[op |-> o] : o \in {"map", "mapping", "zip",
                                               "debounce", "throttle"}}

\* Binding::mapping takes a Binding: in a chain it stands on the source or on
\* another mapping.
WellTyped(ch) ==
    \A i \in 1..Len(ch) :
        ch[i].op = "mapping" => \A j \in 1..(i - 1) : ch[j].op = "mapping"

Chains ==
    {ch \in UNION {[1..n -> Stages] : n \in 0..MaxChain} : WellTyped(ch)}

\* The function given to map.
MapF(v) == [f |-> v]

RECURSIVE GetThrough(_, _, _, _)
\* get() of stage k of chain ch (of the source for k = 0): Map applies f,
\* Mapping its getter, Zip pairs both sides, the others hand on signal.get().
GetThrough(ch, k, v, b) ==
    IF k = 0 THEN v
    ELSE LET u == GetThrough(ch, k - 1, v, b) IN
         CASE ch[k].op = "map" -> MapF(u)
           [] ch[k].op = "mapping" -> u + Offset
           [] ch[k].op = "zip" -> <<u, b[k]>>
           [] OTHER -> u

\* A Map closure that makes a new context.
MapContextFresh(ctx) == [ctx EXCEPT !.v = MapF(@), !.m = NoMetadata]

\* Map::watch: Context::new((this.f)(value), metadata)
MapContext(ctx) == [ctx EXCEPT !.v = MapF(@)]

\* WithMetadata::watch: watcher(context.with(with.clone()))
WithContext(ctx, g) == [ctx EXCEPT !.m = MetaWith(@, g.t, g.x)]

\* Mapping::watch: the getter on the value, the metadata as received
MappingContext(ctx) == [ctx EXCEPT !.v = @ + Offset]

RECURSIVE Through(_, _, _)
\* The closure stage i registered on the stage before it is invoked with
\* ctx.  s holds the stage states and what the watcher received.  Debounce
\* keeps the context for its timer task (replacing the task it had),
\* Throttle hands it on unless it is throttled, the others hand it on at once.
Through(s, i, ctx) ==
    IF i > Len(cells.chain) THEN [s EXCEPT !.xlog = Append(@, ctx)]
    ELSE LET g == cells.chain[i] IN
         CASE g.op = "with" -> Through(s, i + 1, WithContext(ctx, g))
           [] g.op = "map" -> Through(s, i + 1, MapContext(ctx))
           [] g.op = "mapping" -> Through(s, i + 1, MappingContext(ctx))
           [] g.op = "zip" ->
                 Through([s EXCEPT !.st[i].la = ctx.v], i + 1,
                         [ctx EXCEPT !.v = <<@, s.st[i].lb>>])
           [] g.op = "debounce" -> [s EXCEPT !.st[i].pend = <<ctx>>]
           [] g.op = "throttle" ->
                 IF s.st[i].throttled THEN s
                 ELSE [Through(s, i + 1, ctx) EXCEPT !.st[i].throttled = TRUE]

\* The closure Zip stage i registered on its second Container is invoked.
ThroughB(s, i, ctx) ==
    Through([s EXCEPT !.st[i].lb = ctx.v], i + 1,
            [ctx EXCEPT !.v = <<s.st[i].la, @>>])

\* A stage before watch: no task, not throttled, no latest values.
NewStage == [pend |-> <<>>, throttled |-> FALSE, la |-> 0, lb |-> 0]

\* The part of the state a notification of the chain works on.
ChainState == [st |-> cells.st, xlog |-> xlog]

\* What the chain state does not use.
chidle == <<id, map, calls, cidle, tvars, bside, srcGets>>

\* The state once the source and the chain on it are built.
InitChain ==
    \E ch \in Chains :
        InitState("chain", "borrow",
                  [chain |-> ch, st |-> [i \in 1..Len(ch) |-> NewStage],
                   b |-> [i \in 1..Len(ch) |-> 0], watched |-> FALSE])

ChainReady ==
    /\ wrapper = "chain"
    /\ panicked = "no"

\* watch on the last stage: every stage registers its closure on the stage
\* before it, and Zip::watch reads both of its sides.
ChainWatch ==
    /\ ChainReady
    /\ ~cells.watched
    /\ cells' = [cells EXCEPT
          !.watched = TRUE,
          !.st = [i \in 1..Len(cells.chain) |->
                    IF cells.chain[i].op = "zip"
                    THEN [cells.st[i] EXCEPT
                            !.la = GetThrough(cells.chain, i - 1, value,
                                              cells.b),
                            !.lb = cells.b[i]]
                    ELSE cells.st[i]]]
    /\ got' = NoGet
    /\ UNCHANGED <<value, panicked, sets, xlog, chidle>>

\* The end of a set: the new stage states and what the watcher received.
ChainDone(s, side, v) ==
    /\ xlog' = s.xlog
    /\ sets' = Append(sets, [side |-> side, v |-> v])
    /\ got' = NoGet
    /\ UNCHANGED <<panicked, chidle>>

\* Container::set(v) on the source: notify with v and Metadata::new().
ChainSet(v) ==
    /\ ChainReady
    /\ Len(sets) < MaxSets
    /\ value' = v
    /\ LET ctx == [v |-> v, m |-> NoMetadata, n |-> Len(sets) + 1,
                   enter |-> 1]
           s == IF cells.watched THEN Through(ChainState, 1, ctx)
                ELSE ChainState
       IN  /\ cells' = [cells EXCEPT !.st = s.st]
           /\ ChainDone(s, 0, v)

\* Container::set(v) on the second Container of the Zip at stage i.
ChainSetB(i, v) ==
    /\ ChainReady
    /\ Len(sets) < MaxSets
    /\ i \in 1..Len(cells.chain)
    /\ cells.chain[i].op = "zip"
    /\ LET ctx == [v |-> v, m |-> NoMetadata, n |-> Len(sets) + 1,
                   enter |-> i + 1]
           s == IF cells.watched THEN ThroughB(ChainState, i, ctx)
                ELSE ChainState
       IN  /\ cells' = [cells EXCEPT !.st = s.st, !.b[i] = v]
           /\ ChainDone(s, i, v)
    /\ UNCHANGED value

\* The timer task of the Debounce at stage i runs to its end:
\* watchers.notify(|| ctx_value.clone(), &ctx_metadata)
ChainFire(i) ==
    /\ ChainReady
    /\ i \in 1..Len(cells.chain)
    /\ cells.st[i].pend # <<>>
    /\ LET s == Through([ChainState EXCEPT !.st[i].pend = <<>>], i + 1,
                        cells.st[i].pend[1])
       IN  /\ cells' = [cells EXCEPT !.st = s.st]
           /\ xlog' = s.xlog
    /\ got' = NoGet
    /\ UNCHANGED <<value, panicked, sets, chidle>>

\* The timer task of the Throttle at stage i runs to its end:
\* throttled.set(false)
ChainReopen(i) ==
    /\ ChainReady
    /\ i \in 1..Len(cells.chain)
    /\ cells.st[i].throttled
    /\ cells' = [cells EXCEPT !.st[i].throttled = FALSE]
    /\ got' = NoGet
    /\ UNCHANGED <<value, panicked, sets, xlog, chidle>>

NextChain ==
    \/ ChainWatch
    \/ \E v \in Values : ChainSet(v)
    \/ \E i \in 1..MaxChain, v \in Values : ChainSetB(i, v)
    \/ \E i \in 1..MaxChain : ChainFire(i)
    \/ \E i \in 1..MaxChain : ChainReopen(i)

SpecChain == InitChain /\ [][NextChain]_vars

\* ================================================================== Lazy
\* One Lazy and its clones, which share the Rc<LazyInner>.  cells holds the
\* inner (value: <<>> for None, <<v>> for Some(v); shared: the shared
\* borrows of the RefCell in force), the number of handles, what f returns
\* and how often it was called; sets is the sequence of get calls, each
\* with what it returned (<<>> when it panicked instead).  kind is
\* the panic strategy of the build: under "abort" a panic ends the program,
\* under "unwind" the caller may catch it and go on.

\* The number of get calls of a run.
MaxGets == 4

Panics == {"unwind", "abort"}

\* What f computes: the same value each time ("const"), or the number of
\* the call (a closure that counts).
Fs == {[k |-> "const", v |-> 1], [k |-> "const", v |-> 2],
       [k |-> "count", v |-> 0]}

\* (self.inner.f)(), as the call number n
CallF(f, n) == IF f.k = "const" THEN f.v ELSE n

\* Lazy::new
InitLazy ==
    \E f \in Fs, p \in Panics :
        InitState("lazy", p, [value |-> <<>>, shared |-> 0, handles |-> 1,
                              f |-> f, fcalls |-> 0])

LazyReady ==
    /\ wrapper = "lazy"
    /\ panicked = "no"

lzidle == <<value, id, map, calls, stack, log, returned, regAt, cancelAt,
            last, tvars, bside, srcGets, xlog>>

\* Clone for Lazy: one more handle on the same inner
LazyClone ==
    /\ LazyReady
    /\ cells.handles < MaxHandles
    /\ cells' = [cells EXCEPT !.handles = @ + 1]
    /\ got' = NoGet
    /\ UNCHANGED <<kind, panicked, sets, lzidle>>

\* RefCell::borrow_mut with n shared borrows in force: TRUE when granted
BorrowMutGranted(n) == n = 0

\* Lazy::get on handle h.  value.borrow() is a temporary of the whole
\* expression, so the shared borrow is in force while map_or_else runs.  On
\* Some the stored value is cloned.  On None the closure calls f and then
\* asks for borrow_mut to store the result: granted, it stores and returns
\* the value; refused, the call panics and nothing is stored.  The borrow
\* ends with the expression, also when it unwinds.
LazyGet(h) ==
    /\ LazyReady
    /\ Len(sets) < MaxGets
    /\ LET held == cells.shared + 1
           n == cells.fcalls + 1
           v == CallF(cells.f, n)
       IN  IF cells.value # <<>>
           THEN /\ got' = [who |-> "lazy", h |-> h, res |-> cells.value]
                /\ sets' = Append(sets, [h |-> h, res |-> cells.value,
                                         panic |-> FALSE, fcalls |-> 0])
                /\ UNCHANGED <<cells, panicked>>
           ELSE IF BorrowMutGranted(held)
           THEN /\ got' = [who |-> "lazy", h |-> h, res |-> <<v>>]
                /\ sets' = Append(sets, [h |-> h, res |-> <<v>>,
                                         panic |-> FALSE, fcalls |-> 1])
                /\ cells' = [cells EXCEPT !.value = <<v>>, !.fcalls = n]
                /\ UNCHANGED panicked
           ELSE /\ got' = [who |-> "lazy", h |-> h, res |-> <<>>]
                /\ sets' = Append(sets, [h |-> h, res |-> <<>>,
                                         panic |-> TRUE, fcalls |-> 1])
                /\ cells' = [cells EXCEPT !.fcalls = n]
                /\ panicked' = IF kind = "abort" THEN "lazy" ELSE panicked
    /\ UNCHANGED <<kind, lzidle>>

NextLazy ==
    \/ LazyClone
    \/ \E h \in 1..MaxHandles : h <= cells.handles /\ LazyGet(h)

SpecLazy == InitLazy /\ [][NextLazy]_vars

\* ============================= Cached, read from inside a notification
\* A Container, watchers registered on it directly, and a Cached built on
\* it at some moment.  Each watcher of the user calls Cached::get from
\* inside its callback once the Cached exists.  cells holds the cache cell,
\* whether Cached::new has run, and the watch calls made (regs, each with
\* whether the Cached existed); xlog the invocations of the watchers, each
\* with the value delivered (v) and what Cached::get returned (res, <<>>
\* when there was no Cached to ask).

\* The watcher of the user: it calls Cached::get.
ReadingWatcher == [k |-> "cget", arg |-> 0]

InitReading ==
    InitState("reading", "borrow",
              [cache |-> <<>>, built |-> FALSE, regs |-> <<>>])

ReadingReady ==
    /\ wrapper = "reading"
    /\ panicked = "no"

ridle == <<kind, stack, log, returned, regAt, cancelAt, last, tvars, bside,
           srcGets, panicked, calls>>

\* Container::watch with a watcher that reads the Cached
ReadingWatch ==
    /\ ReadingReady
    /\ Len(cells.regs) < MaxDown
    /\ LET r == Register(Inner, ReadingWatcher) IN
        /\ id' = r.id
        /\ map' = r.map
    /\ cells' = [cells EXCEPT !.regs =
                    Append(@, [id |-> id, built |-> cells.built])]
    /\ got' = NoGet
    /\ UNCHANGED <<value, sets, xlog, ridle>>

\* Cached::new(source): the cache starts empty and the closure is
\* registered on the source at once.
CachedNew ==
    /\ ReadingReady
    /\ ~cells.built
    /\ LET r == Register(Inner, CacheClosure) IN
        /\ id' = r.id
        /\ map' = r.map
    /\ cells' = [cells EXCEPT !.built = TRUE, !.cache = <<>>]
    /\ got' = NoGet
    /\ UNCHANGED <<value, sets, xlog, ridle>>

\* Cached::get with the source holding x: what it returns and what the
\* cache holds afterwards.
CachedRead(cache, x) ==
    IF CacheLookup(cache) # <<>>
    THEN [res |-> CacheLookup(cache)[1], cache |-> cache]
    ELSE [res |-> x, cache |-> <<x>>]

\* Cached::get from outside any notification
ReadingGet ==
    /\ ReadingReady
    /\ cells.built
    /\ got' = [who |-> "cached", c |-> 1,
               v |-> CachedRead(cells.cache, ContainerGet).res,
               src |-> cells.cache = <<>>]
    /\ cells' = [cells EXCEPT
                    !.cache = CachedRead(cells.cache, ContainerGet).cache]
    /\ UNCHANGED <<value, id, map, sets, xlog, ridle>>

\* One callback of the source is invoked with v while the source holds x.
ReadingDeliver(s, e, v, x, n) ==
    CASE e.cb.k = "cache" -> CacheClosureRun(s, v)
      [] e.cb.k = "cget" ->
            IF s.cells.built
            THEN [s EXCEPT
                    !.cells.cache = CachedRead(s.cells.cache, x).cache,
                    !.xlog = Append(@, [w |-> e.id, v |-> v, n |-> n,
                        res |-> <<CachedRead(s.cells.cache, x).res>>])]
            ELSE [s EXCEPT
                    !.xlog = Append(@, [w |-> e.id, v |-> v, n |-> n,
                                        res |-> <<>>])]

RECURSIVE ReadingNotify(_, _, _, _, _)
\* WatcherManagerInner::notify: every callback in key order
ReadingNotify(s, entries, v, x, n) ==
    IF entries = <<>> THEN s
    ELSE ReadingNotify(ReadingDeliver(s, Head(entries), v, x, n),
                       Tail(entries), v, x, n)

\* Container::set(v): the value is stored, then the callbacks are run.
ReadingSet(v) ==
    /\ ReadingReady
    /\ Len(sets) < MaxSets
    /\ value' = v
    /\ LET s == ReadingNotify(DState, Snapshot(map), v, v, Len(sets) + 1)
       IN  /\ cells' = s.cells
           /\ xlog' = s.xlog
    /\ sets' = Append(sets, [v |-> v, old |-> value])
    /\ got' = NoGet
    /\ UNCHANGED <<id, map, ridle>>

NextReading ==
    \/ ReadingWatch
    \/ CachedNew
    \/ ReadingGet
    \/ \E v \in Values : ReadingSet(v)

SpecReading == InitReading /\ [][NextReading]_vars

\* ============================ Throttle, set from a downstream callback
\* A Throttle over the Container whose downstream watchers either record
\* what they receive or, on a value other than theirs, set the source from
\* inside the callback.  The variables are those of Debounce and Throttle;
\* each arrival in uplog carries the number of timers that had expired when
\* it came (ep) and the depth of the source notification it belongs to.

\* What a downstream watcher does: record, or call source.set(arg) when
\* the value it receives is not arg.
DownCallbacks == {[k |-> "log", arg |-> 0], [k |-> "set", arg |-> 0]}

\* The state once the operator (one of ws) is built on the Container, with
\* one handle on it; c is what the cells variable starts with.
InitOperator(ws, c) ==
    /\ kind = "borrow"
    /\ value = 0
    /\ id = 1
    /\ map = <<>>
    /\ stack = <<>>
    /\ panicked = "no"
    /\ calls = 0
    /\ log = <<>>
    /\ returned = {}
    /\ regAt = [i \in {} |-> 0]
    /\ cancelAt = [i \in {} |-> 0]
    /\ last = NoOp
    /\ wrapper \in ws
    /\ srcMeta = EmptyMeta
    /\ now = 0
    /\ insts = <<NewInstance>>
    /\ guardCells = <<None>>
    /\ timerCells = <<None>>
    /\ throttledCells = <<FALSE>>
    /\ dregs = <<NewRegistry>>
    /\ tasks = <<>>
    /\ uplog = <<>>
    /\ dlog = <<>>
    /\ got = NoGet
    /\ cells = c
    /\ bside = <<>>
    /\ sets = <<>>
    /\ xlog = <<>>
    /\ srcGets = 0

\* Throttle::new on the Container
InitNested == InitOperator({"throttle"}, <<>>)

\* The part of the state a notification of the source works on.
NestedState ==
    [value |-> value, tasks |-> tasks, timerCells |-> timerCells,
     throttledCells |-> throttledCells, uplog |-> uplog, dlog |-> dlog]

\* The timers that have expired so far.
Expirations == Cardinality({t \in 1..Len(tasks) : tasks[t].st = "done"})

RECURSIVE NestedNotify(_, _, _, _, _)
RECURSIVE NestedDown(_, _, _, _, _, _)

\* The closure Throttle::watch registers on its source: when the gate is
\* open, watchers.notify runs first, and only when it has returned is the
\* gate closed and the timer spawned.
NestedUpstream(s, d, v, m, depth) ==
    IF ThrottleGate(s.throttledCells[d.throttled])
    THEN [s EXCEPT !.uplog = Append(@, [t |-> now, v |-> v, fwd |-> FALSE,
                                        ep |-> Expirations, depth |-> depth])]
    ELSE LET up == Append(s.uplog, [t |-> now, v |-> v, fwd |-> TRUE,
                                    ep |-> Expirations, depth |-> depth])
             s1 == NestedDown([s EXCEPT !.uplog = up],
                              dregs[d.watchers].map, v, m, depth, Len(up))
             tk == DropTask(s1.tasks, s1.timerCells[d.timer])
         IN  [s1 EXCEPT !.throttledCells[d.throttled] = TRUE,
                        !.tasks = Spawn(tk, d, v, m, Len(up)),
                        !.timerCells[d.timer] = Len(tk) + 1]

\* Container::set(v) on the source, at depth 1 from the user and deeper
\* from a callback: store, then notify the closures registered on it.
NestedSet(s, v, depth) ==
    NestedNotify([s EXCEPT !.value = v], Snapshot(map), v,
                 SetMeta \cup srcMeta, depth)

\* watchers.notify of the Throttle: every downstream watcher in key order
\* is handed the value; a setting watcher then sets the source.
NestedDown(s, entries, v, m, depth, n) ==
    IF entries = <<>> THEN s
    ELSE LET e == Head(entries)
             s1 == [s EXCEPT !.dlog =
                       Append(@, [w |-> e.id, v |-> v, m |-> m, t |-> now,
                                  n |-> n, depth |-> depth])]
             s2 == IF e.cb.k = "set" /\ v # e.cb.arg
                   THEN NestedSet(s1, e.cb.arg, depth + 1)
                   ELSE s1
         IN  NestedDown(s2, Tail(entries), v, m, depth, n)

\* WatcherManagerInner::notify of the source
NestedNotify(s, entries, v, m, depth) ==
    IF entries = <<>> THEN s
    ELSE NestedNotify(
             NestedUpstream(s, insts[Head(entries).cb.arg], v, m, depth),
             Tail(entries), v, m, depth)

\* Throttle::watch with a watcher that does cb
NestedWatch(cb) ==
    LET d == insts[1]
        k == d.watchers
    IN  /\ Expired = {}
        /\ dregs[k].id <= MaxDown
        /\ IF guardCells[d.guard] = None
           THEN LET r == Register(Inner, [k |-> "upstream", arg |-> 1]) IN
                   /\ map' = r.map
                   /\ id' = r.id
                   /\ guardCells' = [guardCells EXCEPT ![d.guard] = id]
           ELSE UNCHANGED <<map, id, guardCells>>
        /\ dregs' = [dregs EXCEPT ![k] = Register(@, cb)]
        /\ UNCHANGED <<wrapper, srcMeta, now, insts, timerCells,
                       throttledCells, tasks, uplog, dlog>>
        /\ UNCHANGED <<kind, value, stack, panicked, calls, log, returned,
                       regAt, cancelAt, last>>
        /\ got' = NoGet /\ UNCHANGED yvars

\* The user sets the source.
NestedSourceSet(v) ==
    /\ Expired = {}
    /\ calls < MaxUp
    /\ calls' = calls + 1
    /\ LET s == NestedSet(NestedState, v, 1) IN
        /\ value' = s.value
        /\ tasks' = s.tasks
        /\ timerCells' = s.timerCells
        /\ throttledCells' = s.throttledCells
        /\ uplog' = s.uplog
        /\ dlog' = s.dlog
    /\ UNCHANGED <<wrapper, srcMeta, now, insts, guardCells, dregs>>
    /\ UNCHANGED <<kind, id, map, stack, panicked, log, returned, regAt,
                   cancelAt, last>>
    /\ got' = NoGet /\ UNCHANGED yvars

NextNested ==
    \/ \E cb \in DownCallbacks : NestedWatch(cb)
    \/ \E i \in 1..MaxDown : TDropGuard(1, i)
    \/ \E v \in Values : NestedSourceSet(v)
    \/ Tick
    \/ \E t \in 1..Len(tasks) : ThrottleFire(t)

SpecNested == InitNested /\ [][NextNested]_vars

\* ======================== Debounce and Throttle, handles and ownership
\* The operator with its handles (the instance and its clones), which all
\* point to the same cells.  cells.handles is the number of handles alive;
\* sets is the sequence of sets of the source, each with the downstream
\* watchers registered then (held), the handles alive and whether the
\* upstream closure was invoked (arrived); xlog is the sequence of Debounce
\* timers that fired, each with the watchers registered then (regs) and
\* the part of dlog it wrote (from + 1 .. to).
\*
\* Who owns what: every handle holds the guard cell, the timer cell and the
\* registry; the upstream closure, which the registry of the source owns,
\* holds the timer cell and the registry but not the guard cell; a
\* downstream guard holds the registry only.

\* The number of sets of the source of a run.
MaxOwnerSets == 1

\* The number of downstream watchers registered in a run.
MaxOwnerWatch == 2

InitOwners == InitOperator({"debounce", "throttle"}, [handles |-> 1])

oidle == <<wrapper, srcMeta, now, insts, timerCells, throttledCells, dregs,
           tasks, uplog, dlog, kind, value, stack, panicked, calls, log,
           returned, regAt, cancelAt, last, bside, sets, xlog, srcGets>>

\* Clone for Debounce / Throttle
OwnersClone ==
    /\ Expired = {}
    /\ cells.handles >= 1
    /\ cells.handles < MaxHandles
    /\ cells' = [cells EXCEPT !.handles = @ + 1]
    /\ got' = NoGet
    /\ UNCHANGED <<id, map, guardCells, oidle>>

\* The last handle is dropped: the guard cell goes with it, and with the
\* guard in it the upstream closure is cancelled and dropped; the closure
\* was the last owner of the timer cell, so the task in it is dropped too.
LastHandleDropped(s) ==
    IF s.guard = None THEN s
    ELSE [inner |-> Cancel(s.inner, s.guard), guard |-> None,
          tasks |-> DropTask(s.tasks, s.timer), timer |-> None]

\* A handle is dropped.
OwnersDrop ==
    /\ Expired = {}
    /\ cells.handles >= 1
    /\ cells' = [cells EXCEPT !.handles = @ - 1]
    /\ LET d == insts[1]
           s == [inner |-> Inner, guard |-> guardCells[d.guard],
                 tasks |-> tasks, timer |-> timerCells[d.timer]]
           r == IF cells.handles = 1 THEN LastHandleDropped(s) ELSE s
       IN  /\ id' = r.inner.id
           /\ map' = r.inner.map
           /\ guardCells' = [guardCells EXCEPT ![d.guard] = r.guard]
           /\ tasks' = r.tasks
           /\ timerCells' = [timerCells EXCEPT ![d.timer] = r.timer]
    /\ got' = NoGet
    /\ UNCHANGED <<wrapper, srcMeta, now, insts, throttledCells, dregs,
                   uplog, dlog, kind, value, stack, panicked, calls, log,
                   returned, regAt, cancelAt, last, bside, sets, xlog,
                   srcGets>>

\* Debounce::watch / Throttle::watch through a handle
OwnersWatch ==
    /\ cells.handles >= 1
    /\ dregs[insts[1].watchers].id <= MaxOwnerWatch
    /\ TWatch(1)

\* Container::set on the source
OwnersSet(v) ==
    /\ Expired = {}
    /\ calls < MaxOwnerSets
    /\ value' = v
    /\ calls' = calls + 1
    /\ LET s == RunUpstream(Cells, Snapshot(map), v, SetMeta \cup srcMeta) IN
        /\ tasks' = s.tasks
        /\ timerCells' = s.timerCells
        /\ throttledCells' = s.throttledCells
        /\ uplog' = s.uplog
        /\ dlog' = s.dlog
        /\ sets' = Append(sets,
              [v |-> v, held |-> Keys(dregs[insts[1].watchers].map),
               handles |-> cells.handles,
               arrived |-> Len(s.uplog) > Len(uplog)])
    /\ got' = NoGet
    /\ UNCHANGED <<wrapper, srcMeta, now, insts, guardCells, dregs, kind,
                   id, map, stack, panicked, log, returned, regAt, cancelAt,
                   last, cells, bside, xlog, srcGets>>

\* The watchers that were registered when the payload of task t arrived.
TargetsAtArrival(t) ==
    SelectSeq(KeySeq(dregs[tasks[t].inst.watchers].map),
              LAMBDA w : w \in uplog[tasks[t].n].regs)

\* The watchers the task of a Debounce notifies: watchers.notify runs when
\* the timer is over, on the registry as it is then.
TargetsAtFire(t) == KeySeq(dregs[tasks[t].inst.watchers].map)

\* The task Debounce spawned: Timer::after(duration) is over, notify.
OwnersFire(t) ==
    /\ wrapper = "debounce"
    /\ t \in Expired
    /\ LET to == TargetsAtFire(t)
           k == tasks[t].inst.watchers
       IN  /\ dlog' = dlog \o
                 [j \in 1..Len(to) |->
                     [w |-> to[j], reg |-> k, v |-> tasks[t].v,
                      m |-> tasks[t].m, t |-> now, n |-> tasks[t].n,
                      seen |-> Len(uplog)]]
           /\ xlog' = Append(xlog,
                 [t |-> t, regs |-> Keys(dregs[k].map), from |-> Len(dlog),
                  to |-> Len(dlog) + Len(to)])
    /\ tasks' = [tasks EXCEPT ![t].st = "done"]
    /\ got' = NoGet
    /\ UNCHANGED <<wrapper, srcMeta, now, insts, guardCells, timerCells,
                   throttledCells, dregs, uplog, cvars, cells, bside, sets,
                   srcGets>>

NextOwners ==
    \/ OwnersClone
    \/ OwnersDrop
    \/ OwnersWatch
    \/ \E i \in 1..MaxOwnerWatch : TDropGuard(1, i)
    \/ \E v \in Values : OwnersSet(v)
    \/ Tick
    \/ \E t \in 1..Len(tasks) : OwnersFire(t)
    \/ \E t \in 1..Len(tasks) : ThrottleFire(t)

SpecOwners == InitOwners /\ [][NextOwners]_vars

\* ============================== List, mutated from a watcher callback
\* One List whose watchers may call an operation on the same List from
\* inside the callback, the first time they are invoked.  cells holds the
\* Vec, the number of shared borrows of its RefCell in force, the registry
\* and the watchers that have made their call (done); sets is the sequence
\* of operations called, each with the depth it was called at (0 from
\* outside, 1 from a callback of a notification of depth 0, ...), whether
\* it got its mutable borrow (ok), the Vec before and after and whether it
\* notified (fired); xlog is what the watchers received.

NoCall == [op |-> "none", i |-> 0, v |-> 0]

\* The operations called on the List.
ListCalls ==
    {[op |-> "push", i |-> 0, v |-> 6], [op |-> "pop", i |-> 0, v |-> 0],
     [op |-> "insert", i |-> 0, v |-> 6], [op |-> "remove", i |-> 0, v |-> 0],
     [op |-> "clear", i |-> 0, v |-> 0]}

\* The ranges watched: .. and 1..4
WatchedRanges ==
    {[s |-> Unbounded, e |-> Unbounded],
     [s |-> Included(1), e |-> Excluded(4)]}

\* List::new() or List::from(vec)
InitMutating ==
    \E vec \in {<<>>, <<1, 2>>} :
        InitState("mutating", "checked",
                  [vec |-> vec, shared |-> 0, mgr |-> NewRegistry,
                   done |-> {}])

MutatingReady ==
    /\ wrapper = "mutating"
    /\ panicked = "no"

midle == <<value, id, map, calls, kind, stack, log, returned, regAt,
           cancelAt, last, tvars, bside, srcGets>>

\* The part of the state a call on the List works on.
MutatingState ==
    [vec |-> cells.vec, shared |-> cells.shared, done |-> cells.done,
     sets |-> sets, xlog |-> xlog, panicked |-> panicked]

\* What operation o makes of the Vec once it has its mutable borrow: the
\* Vec afterwards and whether notify is called, or a panic of Vec::insert /
\* Vec::remove on an index out of bounds.
Effect(o, vec) ==
    CASE o.op = "push" ->
            [panic |-> FALSE, after |-> Append(vec, o.v), fire |-> TRUE]
      [] o.op = "pop" ->
            [panic |-> FALSE,
             after |-> IF vec = <<>> THEN <<>>
                       ELSE SubSeq(vec, 1, Len(vec) - 1),
             fire |-> PopNotifies(IF vec = <<>> THEN <<>>
                                  ELSE <<vec[Len(vec)]>>)]
      [] o.op = "insert" ->
            [panic |-> o.i > Len(vec), after |-> InsertAt(vec, o.i, o.v),
             fire |-> TRUE]
      [] o.op = "remove" ->
            [panic |-> o.i >= Len(vec), after |-> RemoveAt(vec, o.i),
             fire |-> TRUE]
      [] o.op = "clear" ->
            [panic |-> FALSE, after |-> <<>>, fire |-> vec # <<>>]

\* self.vec.borrow_mut(): granted when no borrow is in force
VecBorrowMut(shared) == shared = 0

RECURSIVE CallOn(_, _, _)
RECURSIVE MutatingNotify(_, _, _, _)

\* The watcher of the user, registered with operation o, is invoked: the
\* first time it calls o on the List.
MutatingWatcher(s, w, o, depth) ==
    IF o = NoCall \/ w \in s.done THEN s
    ELSE CallOn([s EXCEPT !.done = @ \cup {w}], o, depth + 1)

\* The closure watch registers (and the block of watch that makes the first
\* call): `borrowed = vec.borrow()` is held while the watcher runs.
MutatingClosure(s, w, range, o, depth, n) ==
    LET sl == Slice(range, s.vec)
    IN  CASE sl.out = "call" ->
                LET s1 == [s EXCEPT
                             !.shared = @ + 1,
                             !.xlog = Append(@, [w |-> w, v |-> sl.v,
                                                 n |-> n])]
                IN  [MutatingWatcher(s1, w, o, depth) EXCEPT
                        !.shared = @ - 1]
          [] sl.out = "skip" -> s
          [] sl.out = "panic" -> [s EXCEPT !.panicked = "overflow"]

\* WatcherManagerInner::notify on the registry of the List; n is the call
\* that notifies.
MutatingNotify(s, entries, depth, n) ==
    IF entries = <<>> \/ s.panicked # "no" THEN s
    ELSE MutatingNotify(
             MutatingClosure(s, Head(entries).id, Head(entries).cb.arg.range,
                             Head(entries).cb.arg.o, depth, n),
             Tail(entries), depth, n)

\* List::push / pop / insert / remove / clear called at the given depth:
\* the mutable borrow of the Vec is taken, the Vec changed and the borrow
\* given back, then notify is called.
CallOn(s, o, depth) ==
    LET n == Len(s.sets) + 1
        ef == Effect(o, s.vec)
        note == [o |-> o, depth |-> depth, before |-> s.vec]
    IN  IF ~VecBorrowMut(s.shared)
        THEN [s EXCEPT !.panicked = "vec",
                       !.sets = Append(@, note @@
                           [ok |-> FALSE, after |-> s.vec, fired |-> FALSE])]
        ELSE IF ef.panic
        THEN [s EXCEPT !.panicked = "index",
                       !.sets = Append(@, note @@
                           [ok |-> TRUE, after |-> s.vec, fired |-> FALSE])]
        ELSE LET s1 == [s EXCEPT !.vec = ef.after,
                                 !.sets = Append(@, note @@
                                     [ok |-> TRUE, after |-> ef.after,
                                      fired |-> ef.fire])]
             IN  IF ef.fire
                 THEN MutatingNotify(s1, Snapshot(cells.mgr.map), depth, n)
                 ELSE s1

\* An operation is called on the List from outside any callback.
MutatingCall(o) ==
    /\ MutatingReady
    /\ Len(sets) < MaxOps
    /\ Len(cells.vec) < MaxLen
    /\ LET s == CallOn(MutatingState, o, 0) IN
        /\ cells' = [cells EXCEPT !.vec = s.vec, !.shared = s.shared,
                                  !.done = s.done]
        /\ sets' = s.sets
        /\ xlog' = s.xlog
        /\ panicked' = s.panicked
    /\ got' = NoGet
    /\ UNCHANGED midle

\* Collection::watch for List with a watcher that calls o: the watcher is
\* called at once with the current slice, with the Vec borrowed, and then
\* the closure is registered, unless the first call panicked.
MutatingWatch(range, o) ==
    /\ MutatingReady
    /\ cells.mgr.id <= MaxWatch
    /\ LET s == MutatingClosure(MutatingState, cells.mgr.id, range, o, 0, 0)
           r == Register(cells.mgr,
                         [k |-> "range", arg |-> [range |-> range, o |-> o]])
       IN  /\ cells' = [cells EXCEPT
                 !.vec = s.vec, !.shared = s.shared, !.done = s.done,
                 !.mgr = IF s.panicked = "no" THEN r ELSE @]
           /\ sets' = s.sets
           /\ xlog' = s.xlog
           /\ panicked' = s.panicked
    /\ got' = NoGet
    /\ UNCHANGED midle

NextMutating ==
    \/ \E o \in ListCalls : MutatingCall(o)
    \/ \E range \in WatchedRanges, o \in ListCalls \cup {NoCall} :
           MutatingWatch(range, o)

SpecMutating == InitMutating /\ [][NextMutating]_vars

\* ============================================ Zip, over any two signals
\* A Zip whose sides are two Containers ("two"), two clones of the same
\* Container ("same"), or a Container and a Throttle over the second
\* Container ("gated").  value is the first Container and bside the second;
\* cells holds the topology, the latest cells of each Zip::watch call, the
\* watch calls and the flag of the Throttle.  For "gated", bside.map is the
\* registry of the Throttle, which is subscribed to the second Container
\* from its first watch call on.

Sides == {"two", "same", "gated"}

\* The number of sets of a run, on either Container.
MaxSideSets == 3

InitSides ==
    \E t \in Sides :
        InitState("sides", "borrow",
                  [cache |-> <<>>, last |-> <<>>, latest |-> <<>>,
                   regs |-> <<>>, topo |-> t, throttled |-> FALSE])

SidesReady ==
    /\ wrapper = "sides"
    /\ panicked = "no"

sdidle == <<kind, stack, log, returned, regAt, cancelAt, last, tvars,
            srcGets, calls, panicked>>

\* b.get(): a clone of the first Container reads the first Container; a
\* Throttle passes the read on to its source.
SideBGet == IF cells.topo = "same" THEN ContainerGet ELSE bside.value

\* Zip::watch: the latest cells are seeded with a.get() and b.get(), then
\* one closure is registered on a and one on b, which for two clones of one
\* Container is the same registry.
SidesWatch ==
    /\ SidesReady
    /\ Len(cells.regs) < MaxWatch
    /\ LET z == Len(cells.regs) + 1
           cla == [k |-> "zip", arg |-> [side |-> "a", z |-> z]]
           clb == [k |-> "zip", arg |-> [side |-> "b", z |-> z]]
           ra == Register(Inner, cla)
           rb == IF cells.topo = "same" THEN Register(ra, clb)
                 ELSE Register([id |-> bside.id, map |-> bside.map], clb)
       IN  /\ id' = IF cells.topo = "same" THEN rb.id ELSE ra.id
           /\ map' = IF cells.topo = "same" THEN rb.map ELSE ra.map
           /\ bside' = IF cells.topo = "same" THEN bside
                       ELSE [bside EXCEPT !.id = rb.id, !.map = rb.map]
           /\ cells' = [cells EXCEPT
                  !.latest = Append(@, [a |-> ContainerGet, b |-> SideBGet]),
                  !.regs = Append(@, [via |-> "zip", at |-> Len(sets),
                                      id |-> id, until |-> -1])]
    /\ got' = NoGet
    /\ UNCHANGED <<value, sets, xlog, sdidle>>

\* Container::set(v) on the first Container
SidesSetA(v) ==
    /\ SidesReady
    /\ Len(sets) < MaxSideSets
    /\ value' = v
    /\ LET s == RunDerived(DState, Snapshot(map), v, SetMeta, Len(sets) + 1)
       IN  /\ cells' = s.cells
           /\ xlog' = s.xlog
    /\ sets' = Append(sets, [on |-> "a", v |-> v, fwd |-> TRUE])
    /\ got' = NoGet
    /\ UNCHANGED <<id, map, bside, sdidle>>

\* Container::set(v) on the second Container.  Behind a Throttle the
\* notification is forwarded to the closures of the Zip when the gate is
\* open, which closes it, and dropped otherwise.
SidesSetB(v) ==
    /\ SidesReady
    /\ cells.topo # "same"
    /\ Len(sets) < MaxSideSets
    /\ bside' = [bside EXCEPT !.value = v]
    /\ LET subscribed == cells.regs # <<>>
           fwd == cells.topo = "two" \/
                  (subscribed /\ ~ThrottleGate(cells.throttled))
           s == IF fwd
                THEN RunDerived(DState, Snapshot(bside.map), v, SetMeta,
                                Len(sets) + 1)
                ELSE DState
       IN  /\ cells' = [s.cells EXCEPT !.throttled =
                           IF cells.topo = "gated" /\ fwd THEN TRUE ELSE @]
           /\ xlog' = s.xlog
           /\ sets' = Append(sets, [on |-> "b", v |-> v, fwd |-> fwd])
    /\ got' = NoGet
    /\ UNCHANGED <<value, id, map, sdidle>>

\* The timer of the Throttle expires: throttled.set(false)
SidesReopen ==
    /\ SidesReady
    /\ cells.topo = "gated"
    /\ cells.throttled
    /\ cells' = [cells EXCEPT !.throttled = FALSE]
    /\ got' = NoGet
    /\ UNCHANGED <<value, id, map, bside, sets, xlog, sdidle>>

NextSides ==
    \/ SidesWatch
    \/ \E v \in Values : SidesSetA(v)
    \/ \E v \in Values : SidesSetB(v)
    \/ SidesReopen

SpecSides == InitSides /\ [][NextSides]_vars

\* ================================================================ claims
DeliveriesOf(c) == SelectSeq(log, LAMBDA e : e.call = c)

TimesDelivered(c, i) ==
    Cardinality({n \in 1..Len(log) : log[n].call = c /\ log[n].w = i})

Range(q) == {q[n] : n \in 1..Len(q)}

\* What a returned set call has delivered: every watcher registered when the
\* call started was invoked exactly once by the call, with the value set and
\* empty metadata.
SetDelivered(r) ==
    /\ \A i \in Range(r.regs) : TimesDelivered(r.call, i) = 1
    /\ \A n \in 1..Len(log) :
          log[n].call = r.call => log[n].v = r.v /\ log[n].m = EmptyMeta

\* C1 as stated: when Container::set(v) returns, get() equals v and every
\* watcher registered before the call has been invoked exactly once by the
\* call with value v and empty metadata, for every set of watchers.
C1_SetStoresAndDelivers ==
    \A r \in returned :
        r.op = "set" /\ r.depth = 1 => r.got = r.v /\ SetDelivered(r)

\* C1 amended: when Container::set(v) returns, every watcher registered before
\* the call has been invoked exactly once by the call with value v and empty
\* metadata; get() equals v whenever no watcher callback has itself called
\* set on the Container during the call.
C1_SetDeliversAndStoresUnlessReset ==
    \A r \in returned :
        r.op = "set" /\ r.depth = 1 =>
            /\ SetDelivered(r)
            /\ r.clean => r.got = r.v

\* A set of the value the Container already held has returned, with two
\* watchers registered, in the registry Container is built on.
C1_Witness ==
    \E r \in returned :
        /\ r.op = "set" /\ r.depth = 1 /\ r.clean
        /\ r.old = r.v /\ Len(r.regs) = 2 /\ r.got = r.v

\* C2 as stated: a callback that registers or cancels a watcher on the same
\* registry during notify succeeds, and the notify in progress invokes exactly
\* the watchers registered when it started.
C2_NotifyWorksOnSnapshot ==
    /\ panicked \notin {"register", "cancel"}
    /\ \A r \in returned :
          [n \in 1..Len(DeliveriesOf(r.call)) |-> DeliveriesOf(r.call)[n].w]
              = r.regs

\* C3: a set called by a watcher callback during the notification of the
\* same Container hits no borrow conflict, stores its value, delivers its own
\* notification to the registered watchers, and the calls in progress can
\* always go on.
C3_NestedSetCompletes ==
    /\ panicked # "notify"
    /\ \A n \in 1..Len(stack) :
          stack[n].op = "set" /\ stack[n].clean => value = stack[n].v
    /\ \A r \in returned : r.depth > 1 => SetDelivered(r)
    /\ (stack # <<>> /\ panicked = "no") =>
          ENABLED (InvokeLog \/ InvokeSet \/ InvokeRegister \/ InvokeCancel
                      \/ Return)

\* A set called from a callback of the registry of src/watcher.rs has
\* returned after notifying a watcher, and the outer set has returned too.
C3_Witness ==
    /\ kind = "borrow"
    /\ stack = <<>>
    /\ \E r \in returned : r.depth = 2 /\ Len(r.regs) >= 1 /\ r.v # r.old

\* C4: within one notify call the watchers are invoked in ascending order of
\* their identifiers, that is, in registration order.
C4_InvokedInRegistrationOrder ==
    \A c \in 1..calls :
        LET d == DeliveriesOf(c) IN
            \A a, b \in 1..Len(d) : a < b => d[a].w < d[b].w

\* A notify call has invoked two watchers, registered before and after a
\* watcher that was cancelled before the call.
C4_Witness ==
    \E r \in returned : \E i \in DOMAIN cancelAt :
        /\ cancelAt[i] < r.call
        /\ \E a, b \in Range(r.regs) : a < i /\ i < b
        /\ Len(DeliveriesOf(r.call)) = 2

\* C5: a callback whose guard was dropped is not invoked by any notification
\* that starts afterwards; every watcher is invoked by every notification
\* that starts while it is registered.
C5_DroppedGuardStopsOnlyItsWatcher ==
    /\ \A n \in 1..Len(log) :
          log[n].w \in DOMAIN cancelAt => log[n].call <= cancelAt[log[n].w]
    /\ \A r \in returned : \A i \in DOMAIN regAt :
          (regAt[i] < r.call /\ (i \in DOMAIN cancelAt => r.call <= cancelAt[i]))
              => TimesDelivered(r.call, i) = 1

\* Watcher i was notified, its guard was dropped, and a later notification
\* reached another watcher and not i.
C5_Witness ==
    \E i \in DOMAIN cancelAt : \E j \in DOMAIN regAt : \E r \in returned :
        /\ i # j
        /\ \E c \in 1..cancelAt[i] : TimesDelivered(c, i) = 1
        /\ r.call > cancelAt[i]
        /\ TimesDelivered(r.call, j) = 1
        /\ TimesDelivered(r.call, i) = 0

CallbackOf(m, i) == (CHOOSE e \in Range(m) : e.id = i).cb

\* C6: cancel(i) leaves the next identifier unchanged, leaves the registry
\* unchanged when i is not registered, and otherwise removes the entry of i
\* alone: every other entry keeps its identifier, callback and place.
C6_CancelIsLocalAndIdempotent ==
    [][last'.op = "cancel" =>
        /\ id' = id
        /\ (last'.arg \notin Keys(map) => map' = map)
        /\ Keys(map') = Keys(map) \ {last'.arg}
        /\ \A j \in Keys(map') : CallbackOf(map', j) = CallbackOf(map, j)
        /\ KeySeq(map') = SelectSeq(KeySeq(map), LAMBDA j : j # last'.arg)]_vars

\* The first of two registered watchers has just been cancelled and the
\* second is still registered.
C6_Witness ==
    /\ last.op = "cancel" /\ last.arg = 1
    /\ Keys(map) = {2}
    /\ 1 \in DOMAIN cancelAt

\* ------------------------------------------------- Debounce and Throttle
Quiet == Live(tasks) = {}

GapsBelow ==
    \A n \in 1..(Len(uplog) - 1) : uplog[n + 1].t - uplog[n].t < Duration

GapsAtLeast ==
    \A n \in 1..(Len(uplog) - 1) : uplog[n + 1].t - uplog[n].t >= Duration

\* The downstream watchers registered since before the first upstream
\* notification and still registered.
Stayed ==
    IF uplog = <<>> THEN {}
    ELSE {w \in uplog[1].regs : w \in Keys(dregs[uplog[1].reg].map)}

DeliveredTo(w) ==
    LET q == SelectSeq(dlog, LAMBDA e : e.w = w /\ e.reg = uplog[1].reg)
    IN  [j \in 1..Len(q) |-> [v |-> q[j].v, m |-> q[j].m, t |-> q[j].t]]

\* What the timer of upstream notification n delivers, and when.
Debounced(n) ==
    [v |-> uplog[n].v, m |-> uplog[n].m, t |-> uplog[n].t + Duration]

\* C7: with every gap between upstream notifications below the duration, a
\* downstream watcher of a Debounce receives nothing until the timer of the
\* last notification expires and then exactly that notification's payload;
\* with every gap at least the duration it receives every notification
\* once, each when its own timer expires, in upstream order.
C7_DebounceDeliversAfterQuietPeriod ==
    wrapper = "debounce" =>
        \A w \in Stayed :
            /\ GapsBelow =>
                  DeliveredTo(w) =
                      IF Quiet THEN <<Debounced(Len(uplog))>> ELSE <<>>
            /\ GapsAtLeast =>
                  DeliveredTo(w) =
                      [n \in 1..(IF Quiet THEN Len(uplog) ELSE Len(uplog) - 1)
                          |-> Debounced(n)]

\* Two upstream notifications with different values came less than the
\* duration apart, and the timer of the second has expired.
C7_Witness ==
    /\ wrapper = "debounce"
    /\ Len(uplog) = 2 /\ uplog[1].v # uplog[2].v
    /\ uplog[2].t - uplog[1].t < Duration
    /\ Quiet
    /\ Stayed # {}
    /\ dlog # <<>>

\* C8: a Debounce and its clones have at most one live timer, the one
\* spawned last; a cancelled timer delivers nothing; what a timer delivers is
\* the value and metadata of the most recent upstream notification.
C8_DebounceSingleTimerLatestPayload ==
    wrapper = "debounce" =>
        /\ Cardinality(Live(tasks)) <= 1
        /\ Live(tasks) \subseteq {Len(tasks)}
        /\ \A t \in 1..Len(tasks) : \A j \in 1..Len(dlog) :
              tasks[t].st = "cancelled" => dlog[j].n # tasks[t].n
        /\ \A j \in 1..Len(dlog) :
              /\ dlog[j].n = dlog[j].seen
              /\ dlog[j].v = uplog[dlog[j].seen].v
              /\ dlog[j].m = uplog[dlog[j].seen].m

\* A timer was cancelled by a later notification with another value, and
\* the later timer has delivered to a watcher registered through the clone.
C8_Witness ==
    /\ wrapper = "debounce"
    /\ \E t \in 1..Len(tasks) : tasks[t].st = "cancelled"
    /\ \E j \in 1..Len(dlog) :
          dlog[j].n = 2 /\ uplog[1].v # uplog[2].v /\ dlog[j].m = {"tag"}
    /\ map # <<>> /\ map[1].cb.arg = 2

LastForwardedBefore(n) ==
    LET prior == {k \in 1..(n - 1) : uplog[k].fwd}
    IN  IF prior = {} THEN 0
        ELSE CHOOSE k \in prior : \A x \in prior : x <= k

TimesForwarded(n, w) ==
    Cardinality({j \in 1..Len(dlog) :
        dlog[j].n = n /\ dlog[j].w = w /\ dlog[j].reg = uplog[n].reg})

\* C9: a Throttle forwards an upstream notification at once, to every
\* downstream watcher, exactly when no notification was forwarded less than
\* the duration before it; any other notification is never delivered; and
\* the Throttle is suppressed exactly while its timer is pending.
C9_ThrottleForwardsFirstDropsRest ==
    wrapper = "throttle" =>
        /\ \A n \in 1..Len(uplog) :
              LET k == LastForwardedBefore(n) IN
                  uplog[n].fwd <=>
                      (k = 0 \/ uplog[n].t - uplog[k].t >= Duration)
        /\ \A n \in 1..Len(uplog) : \A w \in uplog[n].regs :
              TimesForwarded(n, w) = IF uplog[n].fwd THEN 1 ELSE 0
        /\ \A j \in 1..Len(dlog) :
              /\ uplog[dlog[j].n].fwd
              /\ dlog[j].t = uplog[dlog[j].n].t
              /\ dlog[j].v = uplog[dlog[j].n].v
              /\ dlog[j].m = uplog[dlog[j].n].m
        /\ \A k \in {insts[c].throttled : c \in 1..Len(insts)} :
              throttledCells[k] <=> ~Quiet

\* A notification was forwarded, the next one, with another value, came
\* while suppressed and was dropped; the timer has expired since and the
\* Throttle is open again.
C9_Witness ==
    /\ wrapper = "throttle"
    /\ Len(uplog) = 2
    /\ uplog[1].fwd /\ ~uplog[2].fwd
    /\ uplog[1].v # uplog[2].v
    /\ uplog[2].regs # {}
    /\ Quiet /\ ~throttledCells[1]

Watched == \E k \in 1..Len(dregs) : dregs[k].id > 1

\* C10: a Debounce or Throttle has no watcher registered on its source
\* before the first watch call and exactly one afterwards, whatever the
\* number of watch calls on it and on its clone; one upstream notification
\* reaches each downstream watcher at most once.
C10_SingleLazyUpstreamSubscription ==
    /\ Len(map) = IF Watched THEN 1 ELSE 0
    /\ \A j1, j2 \in 1..Len(dlog) :
          (/\ uplog[dlog[j1].n].src = uplog[dlog[j2].n].src
           /\ dlog[j1].w = dlog[j2].w
           /\ dlog[j1].reg = dlog[j2].reg) => j1 = j2

\* Two watch calls were made, the first of them on the clone, and both
\* watchers have been notified through the one upstream subscription.
C10_Witness ==
    /\ Len(map) = 1 /\ map[1].cb.arg = 2
    /\ Len(dregs[1].map) = 2
    /\ Len(dlog) = 2

\* C11: a read of a Debounce or Throttle, through the instance or its
\* clone, with a timer pending or not, returns the value the source holds
\* at that moment, and changes nothing of the operator or of the source.
C11_ReadsPassThrough ==
    got.who = "operator" =>
        /\ got.v = value
        /\ got.pre = <<cvars, tvars>>

\* The clone is read while a timer is pending and nothing has been
\* delivered downstream: the read already gives the new value of the source.
C11_Witness ==
    /\ got.who = "operator" /\ got.c = 2
    /\ value = 1 /\ got.v = 1
    /\ Live(tasks) # {}
    /\ Keys(dregs[1].map) # {}
    /\ dlog = <<>>

\* --------------------------------------------------------------- Cached
\* What the watcher of watch call r has received.
Received(r) ==
    LET q == SelectSeq(xlog, LAMBDA e : e.w = cells.regs[r].id)
    IN  [j \in 1..Len(q) |-> [v |-> q[j].v, m |-> q[j].m, n |-> q[j].n]]

\* The notifications of the source from watch call r on, until its guard
\* was dropped.
SourceNotified(r) ==
    LET a == cells.regs[r].at
        u == IF cells.regs[r].until = -1 THEN Len(sets)
             ELSE cells.regs[r].until
    IN  [j \in 1..(u - a) |->
            [v |-> sets[a + j].v, m |-> sets[a + j].m, n |-> a + j]]

\* C12: a Cached calls get of its source at most once between two
\* notifications of the source and before the first, however often it is
\* read, and never once the source has notified.
C12_SourceReadAtMostOnce ==
    wrapper = "cached" =>
        /\ srcGets <= 1
        /\ (got.who = "cached" /\ sets # <<>>) => ~got.src

\* The Cached was read through the instance and through its clone before
\* the first notification: only the first read went to the source.
C12_Witness ==
    /\ wrapper = "cached"
    /\ sets = <<>>
    /\ srcGets = 1
    /\ got.who = "cached" /\ got.c = 2 /\ ~got.src

\* C13: once the source has notified, a read of the Cached or of its clone
\* returns the value of the last notification; before that it returns what
\* get of the source returns, and the cache holds it afterwards.
C13_NeverStale ==
    (wrapper = "cached" /\ got.who = "cached") =>
        IF sets # <<>>
        THEN got.v = sets[Len(sets)].v
        ELSE got.v = value /\ cells.cache = <<got.v>>

\* The source notified 0 and then 1, which replaced the 0 in the cache, and
\* the clone is read.
C13_Witness ==
    /\ wrapper = "cached"
    /\ Len(sets) = 2
    /\ sets[1].v = 0 /\ sets[2].v = 1
    /\ got.who = "cached" /\ got.c = 2 /\ got.v = 1

\* C14: a watcher registered through Cached::watch receives what the source
\* notifies from then on, value and metadata unaltered and in order: the
\* same as a watcher registered on the source at the same moment.
C14_CachedWatchIsSourceWatch ==
    wrapper = "cached" =>
        /\ \A r \in 1..Len(cells.regs) :
              cells.regs[r].via = "cached" => Received(r) = SourceNotified(r)
        /\ \A r1, r2 \in 1..Len(cells.regs) :
              (/\ cells.regs[r1].via = "cached"
               /\ cells.regs[r2].via = "source"
               /\ cells.regs[r1].at = cells.regs[r2].at
               /\ cells.regs[r1].until = cells.regs[r2].until)
                  => [j \in 1..Len(Received(r1)) |->
                         [v |-> Received(r1)[j].v, m |-> Received(r1)[j].m]]
                     = [j \in 1..Len(Received(r2)) |->
                         [v |-> Received(r2)[j].v, m |-> Received(r2)[j].m]]

\* A watcher through the Cached and one on the source, registered at the
\* same moment while the cache holds a value, have both received the two
\* notifications made since, which carry metadata.
C14_Witness ==
    /\ wrapper = "cached"
    /\ Len(cells.regs) = 2
    /\ cells.regs[1].via = "cached" /\ cells.regs[2].via = "source"
    /\ cells.regs[1].at = 0 /\ cells.regs[2].at = 0
    /\ cells.cache # <<>>
    /\ cells.regs[1].until = -1 /\ cells.regs[2].until = -1
    /\ Len(Received(1)) = 2 /\ Len(Received(2)) = 2
    /\ Received(1)[1].v # Received(1)[2].v
    /\ Received(1)[1].m = {"tag"}

\* -------------------------------------------------------------- Distinct
RECURSIVE Forwarded(_, _)
\* The elements of q that differ from the one forwarded before them, the
\* record of the last forwarded one being rec (<<>>: none yet).
Forwarded(q, rec) ==
    IF q = <<>> THEN <<>>
    ELSE IF rec # <<>> /\ rec[1] = Head(q)
         THEN Forwarded(Tail(q), rec)
         ELSE <<Head(q)>> \o Forwarded(Tail(q), <<Head(q)>>)

SetValues(a, b) == [j \in 1..(b - a) |-> sets[a + j].v]

\* C15: the one watcher of a Distinct receives, of the values the source
\* notifies, exactly those that differ from the one forwarded before, the
\* first one always.
C15_DistinctForwardsChanges ==
    (/\ wrapper = "distinct"
     /\ Len(cells.regs) = 1
     /\ cells.regs[1].via = "distinct"
     /\ cells.regs[1].at = 0
     /\ cells.regs[1].until = -1)
        => [j \in 1..Len(Received(1)) |-> Received(1)[j].v]
           = Forwarded(SetValues(0, Len(sets)), <<>>)

\* The watch calls made through the Distinct before set n whose guard is
\* still held.
DistinctWatchers(n) ==
    {r \in 1..Len(cells.regs) :
        /\ cells.regs[r].via = "distinct"
        /\ cells.regs[r].at < n
        /\ cells.regs[r].until = -1}

GotSet(r, n) == \E j \in 1..Len(Received(r)) : Received(r)[j].n = n

\* The record of the last forwarded value after set n.
RecordAfter(n) == IF n = Len(sets) THEN cells.last ELSE sets[n + 1].rec

\* C16: every watcher registered through a Distinct receives the value of a
\* source notification if and only if it differs from the record of the last
\* forwarded value (or there is none), and the record, which they share,
\* changes exactly when the value is forwarded.
C16_SharedRecordGatesEveryWatcher ==
    wrapper = "distinct" =>
        \A n \in 1..Len(sets) :
            LET differs == sets[n].rec = <<>> \/ sets[n].rec[1] # sets[n].v
            IN  /\ \A r \in DistinctWatchers(n) : GotSet(r, n) <=> differs
                /\ DistinctWatchers(n) # {} =>
                      RecordAfter(n) =
                          IF differs THEN <<sets[n].v>> ELSE sets[n].rec

\* ------------------------------------------------------------------- Zip
RECURSIVE ValueAfter(_, _)
\* What the Container of a side holds after the first n sets.
ValueAfter(side, n) ==
    IF n = 0 THEN 0
    ELSE IF sets[n].on = side THEN sets[n].v
    ELSE ValueAfter(side, n - 1)

\* The tuple set n must deliver: the new value of its side with the value
\* the other side held.
Zipped(n) ==
    IF sets[n].on = "a"
    THEN <<sets[n].v, ValueAfter("b", n - 1)>>
    ELSE <<ValueAfter("a", n - 1), sets[n].v>>

\* C17: a watcher registered on a Zip of two Containers receives, for each
\* set on either of them, exactly one tuple: the new value of that side
\* with the last known value of the other side, which is the value it held
\* at watch time or the one it last notified since.
C17_ZipDeliversLatestOfBothSides ==
    wrapper = "zip" =>
        \A r \in 1..Len(cells.regs) :
            LET a == cells.regs[r].at
                u == IF cells.regs[r].until = -1 THEN Len(sets)
                     ELSE cells.regs[r].until
            IN  Received(r) =
                    [j \in 1..(u - a) |->
                        [v |-> Zipped(a + j), m |-> sets[a + j].m,
                         n |-> a + j]]

\* The watch call seeds (0, 0); setting the first Container to 1 delivers
\* (1, 0), then setting the second to 1 delivers (1, 1).
C17_Witness ==
    /\ wrapper = "zip"
    /\ Len(cells.regs) >= 1
    /\ cells.regs[1].at = 0
    /\ Len(sets) = 2
    /\ sets[1].on = "a" /\ sets[2].on = "b"
    /\ Len(Received(1)) = 2
    /\ Received(1)[1].v = <<1, 0>>
    /\ Received(1)[2].v = <<1, 1>>

\* --------------------------------------------------------------- Mapping
\* The watch calls whose watcher was registered when set n was made.
WatchersAt(n) ==
    {r \in 1..Len(cells.regs) :
        /\ cells.regs[r].at < n
        /\ cells.regs[r].until = -1 \/ cells.regs[r].until >= n}

\* What the watcher of watch call r received because of set n.
ReceivedOf(r, n) == SelectSeq(Received(r), LAMBDA e : e.n = n)

NotifiesBefore(n) == IF n = 1 THEN 0 ELSE sets[n - 1].k

\* Set n has notified the registry of the source once and each watcher once:
\* those of the source with the new value, those of the Mapping with the
\* getter applied to it, all with the metadata of the notification.
NotifiedOnce(n) ==
    /\ sets[n].k = NotifiesBefore(n) + 1
    /\ \A r \in WatchersAt(n) :
          ReceivedOf(r, n) =
              <<[v |-> IF cells.regs[r].via = "mapping"
                       THEN Getter(sets[n].v) ELSE sets[n].v,
                 m |-> sets[n].m, n |-> n]>>

\* C18: a read of a Mapping is the getter applied to what the source holds
\* at that moment; a set on a Mapping whose setter calls set of the source
\* once notifies the watchers of the source once, and each watcher of the
\* Mapping once, with the getter applied to the new value of the source and
\* the same metadata.
C18_MappingGetAndSetOnce ==
    wrapper \in Mappings =>
        /\ got.who = "mapping" => got.v = Getter(value)
        /\ \A n \in 1..Len(sets) :
              (sets[n].via = "mapping" /\ Setter(sets[n].y) # <<>>) =>
                  /\ sets[n].v = Setter(sets[n].y)[1]
                  /\ NotifiedOnce(n)

\* The plain Mapping was set to 11 with a watcher on it and a watcher on the
\* source: the source holds 1, its watcher received 1, the watcher of the
\* Mapping 11, and the Mapping reads 11.
C18_Witness ==
    /\ wrapper = "mapping"
    /\ Len(sets) = 1 /\ sets[1].via = "mapping" /\ sets[1].y = 1 + Offset
    /\ value = 1
    /\ \E r1, r2 \in WatchersAt(1) :
          /\ cells.regs[r1].via = "mapping" /\ cells.regs[r2].via = "source"
          /\ Received(r1)[1].v = 1 + Offset
          /\ Received(r2)[1].v = 1
    /\ got.who = "mapping" /\ got.v = 1 + Offset

\* C19: a set on a filter binding with a value the predicate rejects leaves
\* the source as it was, notifies no watcher and fails nothing; with a value
\* the predicate accepts it sets the source to it with one notification.
C19_FilterDropsRejected ==
    wrapper = "filter" =>
        \A n \in 1..Len(sets) :
            sets[n].via = "mapping" =>
                IF Accepts(sets[n].y)
                THEN /\ sets[n].fired
                     /\ sets[n].v = sets[n].y
                     /\ NotifiedOnce(n)
                ELSE /\ ~sets[n].fired
                     /\ sets[n].v = sets[n].old
                     /\ sets[n].k = NotifiesBefore(n)
                     /\ \A e \in Range(xlog) : e.n # n
                     /\ panicked = "no"

\* The source was set to 1 through the filter, with a watcher on the source
\* and one on the filter, which both received it; then the filter was set to
\* 0, which the predicate rejects: the source still holds 1.
C19_Witness ==
    /\ wrapper = "filter"
    /\ Len(sets) = 2
    /\ sets[1].via = "mapping" /\ sets[1].y = 1
    /\ sets[2].via = "mapping" /\ sets[2].y = 0
    /\ value = 1
    /\ Len(cells.regs) = 2
    /\ cells.regs[1].via = "source" /\ cells.regs[2].via = "mapping"
    /\ Len(xlog) = 2

\* C20: after a set of a select binding to if_true the bool binding is true
\* and the select binding reads if_true; after a set to if_false the bool
\* binding is false and the select binding reads if_false; in every state a
\* read of the select binding is if_true when the bool binding is true and
\* if_false otherwise.
C20_SelectRoundTrip ==
    wrapper = "select" =>
        /\ IfTrue # IfFalse
        /\ (sets # <<>> /\ sets[Len(sets)].via = "mapping") =>
              LET y == sets[Len(sets)].y IN
                  /\ y = IfTrue => value = 1 /\ Getter(ContainerGet) = IfTrue
                  /\ y = IfFalse => value = 0 /\ Getter(ContainerGet) = IfFalse
        /\ got.who = "mapping" =>
              got.v = IF value = 1 THEN IfTrue ELSE IfFalse

\* The select binding was set to if_true and then to if_false, and is read:
\* the bool binding is false and the read gives if_false.
C20_Witness ==
    /\ wrapper = "select"
    /\ Len(sets) = 2
    /\ sets[1].via = "mapping" /\ sets[1].y = IfTrue /\ sets[1].v = 1
    /\ sets[2].via = "mapping" /\ sets[2].y = IfFalse
    /\ value = 0
    /\ got.who = "mapping" /\ got.v = IfFalse

\* --------------------------------------------------------------- handle
\* The handle calls among the calls noted in sets.
IsHandle(n) == sets[n].via \in Mutators

\* The via of the watchers registered on the Binding itself.
BindingVia == IF wrapper = "container" THEN "source" ELSE "mapping"

\* The set of the Binding stores y in a way its get reads back as y.
ReadsBack(y) ==
    \/ wrapper = "container"
    \/ /\ wrapper \in Mappings
       /\ Setter(y) # <<>>
       /\ Getter(Setter(y)[1]) = y

\* Handle call n took the value the Binding read, mutated it, stored the
\* result and notified once: every watcher registered then received exactly
\* one notification, those of the Binding with the mutated value, and the
\* Binding reads the mutated value until the next call.
HandledOnce(n) ==
    /\ sets[n].y = Mutate(sets[n].via,
                          IF wrapper = "container" THEN sets[n].old
                          ELSE Getter(sets[n].old))
    /\ sets[n].fired
    /\ sets[n].k = NotifiesBefore(n) + 1
    /\ \A r \in WatchersAt(n) :
          /\ Len(ReceivedOf(r, n)) = 1
          /\ cells.regs[r].via = BindingVia =>
                ReceivedOf(r, n)[1].v = sets[n].y
    /\ n = Len(sets) => BindingGet = sets[n].y

\* C21 as stated: every handle call on a Container-backed Binding or on a
\* Mapping stores the mutated value and notifies every watcher exactly once
\* with it, and get returns the mutated value afterwards.
C21_HandleAlwaysNotifiesOnce ==
    wrapper \in Bindings =>
        \A n \in 1..Len(sets) : IsHandle(n) => HandledOnce(n)

\* C21: a handle call on a Container-backed Binding, or on a Mapping whose
\* setter stores the mutated value so that the getter reads it back, applies
\* the mutator to the current value, notifies every registered watcher
\* exactly once, the watchers of the Binding with the mutated value, and get
\* returns the mutated value afterwards.
C21_HandleNotifiesOnce ==
    wrapper \in Bindings =>
        \A n \in 1..Len(sets) :
            (IsHandle(n) /\ ReadsBack(sets[n].y)) => HandledOnce(n)

\* A handle call flipped the plain Mapping from 10 to 11 while a watcher was
\* registered on it: the watcher received 11 once and the Mapping reads 11.
C21_Witness ==
    /\ wrapper = "mapping"
    /\ Len(sets) = 1 /\ sets[1].via = "flip" /\ sets[1].y = 1 + Offset
    /\ \E r \in 1..Len(cells.regs) :
          /\ cells.regs[r].via = "mapping" /\ cells.regs[r].at = 0
          /\ ReceivedOf(r, 1) = <<[v |-> 1 + Offset, m |-> EmptyMeta, n |-> 1]>>
    /\ got.who = "binding" /\ got.v = 1 + Offset

\* ----------------------------------------------------------------- List
\* Call n was made on a List and notified.
Notified(n) == sets[n].k = NotifiesBefore(n) + 1

Silent(n) == sets[n].k = NotifiesBefore(n)

\* after is before with v put in at index i.
IsInsert(before, after, i, v) ==
    /\ Len(after) = Len(before) + 1
    /\ after[i + 1] = v
    /\ \A j \in 1..Len(before) :
          after[IF j <= i THEN j ELSE j + 1] = before[j]

\* C22: push, insert and remove make their change and then notify exactly
\* once with the full contents; pop notifies exactly once when it removed an
\* element, and on an empty list returns None and does not notify; clear
\* notifies once when the list was not empty and not at all when it was.
C22_ListMutationsNotifyOnce ==
    wrapper = "list" =>
        \A n \in 1..Len(sets) :
            LET c == sets[n] IN
            /\ c.op = "push" =>
                  /\ IsInsert(c.before, c.after, Len(c.before), c.arg)
                  /\ Notified(n) /\ c.ctx = <<c.after>>
            /\ c.op = "insert" =>
                  /\ IsInsert(c.before, c.after, c.arg.i, c.arg.v)
                  /\ Notified(n) /\ c.ctx = <<c.after>>
            /\ c.op = "remove" =>
                  /\ IsInsert(c.after, c.before, c.arg, c.res[1])
                  /\ Notified(n) /\ c.ctx = <<c.after>>
            /\ (c.op = "pop" /\ c.before # <<>>) =>
                  /\ IsInsert(c.after, c.before, Len(c.after), c.res[1])
                  /\ Notified(n) /\ c.ctx = <<c.after>>
            /\ (c.op = "pop" /\ c.before = <<>>) =>
                  c.res = <<>> /\ c.after = <<>> /\ Silent(n)
            /\ c.op = "clear" =>
                  /\ c.after = <<>>
                  /\ IF c.before = <<>> THEN Silent(n)
                     ELSE Notified(n) /\ c.ctx = <<c.after>>

\* A pop on the empty list returned None without a notification, and the
\* push after it notified once.
C22_Witness ==
    /\ wrapper = "list"
    /\ Len(sets) = 2
    /\ sets[1].op = "pop" /\ sets[1].res = <<>> /\ sets[1].k = 0
    /\ sets[2].op = "push" /\ sets[2].k = 1 /\ sets[2].after = <<6>>

\* The bounds of a range as numbers, without the limit of usize.
RangeStart(range) ==
    CASE range.s.k = "in" -> range.s.n
      [] range.s.k = "ex" -> range.s.n + 1
      [] range.s.k = "un" -> 0

RangeEnd(range, len) ==
    CASE range.e.k = "in" -> Min(range.e.n + 1, len)
      [] range.e.k = "ex" -> Min(range.e.n, len)
      [] range.e.k = "un" -> len

\* What a watcher with this range is to receive of vec: <<slice>> when
\* start < len and start < end, with end clamped to len, <<>> otherwise.
Due(range, vec) ==
    IF /\ RangeStart(range) < Len(vec)
       /\ RangeStart(range) < RangeEnd(range, Len(vec))
    THEN <<SubSeq(vec, RangeStart(range) + 1, RangeEnd(range, Len(vec)))>>
    ELSE <<>>

\* The values watch call r received because of call n.
ValuesOf(r, n) ==
    [j \in 1..Len(ReceivedOf(r, n)) |-> ReceivedOf(r, n)[j].v]

\* The notifying calls made while the watcher of watch call r was registered.
WatchersAtInv(r) ==
    {n \in 1..Len(sets) : r \in WatchersAt(n) /\ Notified(n)}

\* Watch call r was served by every notification as its range asks.
Served(r) ==
    \A n \in WatchersAtInv(r) :
        ValuesOf(r, n) = Due(cells.regs[r].range, sets[n].after)

\* The ranges with a bound at usize::MAX that the code adds one to.
AtLimit(range) ==
    \/ range.s.k = "ex" /\ range.s.n = USizeMax
    \/ range.e.k = "in" /\ range.e.n = USizeMax

\* C23: on every notification of a List a watcher registered with a range
\* is invoked exactly when start < len and start < end, the bounds resolved
\* against the length at that time and end clamped to len; it then receives
\* exactly the elements [start, end), and otherwise nothing and no error.
C23_RangeWatcherServed ==
    wrapper = "list" => \A r \in 1..Len(cells.regs) : Served(r)

\* The same for the ranges with no bound at usize::MAX.
RangeWatcherServedBelowLimit ==
    wrapper = "list" =>
        \A r \in 1..Len(cells.regs) :
            ~AtLimit(cells.regs[r].range) => Served(r)

\* The Vec of the List after call a, or as the List was built for a = 0.
VecAt(a) ==
    IF a > 0 THEN sets[a].after
    ELSE IF sets = <<>> THEN VecOf(1) ELSE sets[1].before

\* The last call whose notification the watcher of watch call r can see.
LastSeen(r) ==
    IF cells.regs[r].until = -1 THEN Len(sets) ELSE cells.regs[r].until

RECURSIVE DueUpTo(_, _)
\* What the watcher of watch call r is to have received once call n is over:
\* the slice of the moment of the watch call, then the slice after each
\* notifying call, each only when it is not empty.
DueUpTo(r, n) ==
    IF n <= cells.regs[r].at
    THEN Due(cells.regs[r].range, VecAt(cells.regs[r].at))
    ELSE DueUpTo(r, n - 1) \o
         (IF Notified(n) THEN Due(cells.regs[r].range, sets[n].after)
          ELSE <<>>)

\* Everything the watcher of watch call r received, in order.
AllValuesOf(r) == [j \in 1..Len(Received(r)) |-> Received(r)[j].v]

\* C24: watch invokes the watcher once at registration with the current
\* slice when that slice is not empty and not at all when it is empty or out
\* of range, and afterwards once per notifying mutation.
C24_WatchCallsAtOnceThenPerNotification ==
    wrapper = "list" =>
        /\ panicked # "overflow"
        /\ \A r \in 1..Len(cells.regs) :
              AllValuesOf(r) = DueUpTo(r, LastSeen(r))

\* The same for the ranges with no bound at usize::MAX.
WatchCallsBelowLimit ==
    wrapper = "list" =>
        \A r \in 1..Len(cells.regs) :
            ~AtLimit(cells.regs[r].range) =>
                AllValuesOf(r) = DueUpTo(r, LastSeen(r))

\* [1, 2, 3, 4, 5] watched over 1..4 and then pushed to: the watcher was
\* invoked twice, both times with [2, 3, 4].
WatchedTwice ==
    /\ wrapper = "list"
    /\ Len(cells.regs) = 1 /\ cells.regs[1].at = 0
    /\ cells.regs[1].range = [s |-> Included(1), e |-> Excluded(4)]
    /\ Len(sets) = 1 /\ sets[1].op = "push"
    /\ sets[1].before = <<1, 2, 3, 4, 5>>
    /\ AllValuesOf(1) = <<(<<2, 3, 4>>), (<<2, 3, 4>>)>>

\* --------------------------------------------------------------- clones
\* What the last call made through any handle left in the cell.
Current == VecAt(Len(sets))

\* C29: all clones of a List, and all clones of a Container-backed Binding,
\* share one value cell and one registry: what get and len read through any
\* clone is what the last mutation through any clone left, and a mutation
\* through any clone notifies the watchers registered through any clone.
C29_ClonesShareCellAndRegistry ==
    wrapper \in {"list", "binding"} =>
        /\ \A h \in 1..Len(cells.handles) :
              cells.handles[h] = cells.handles[1]
        /\ got.who = "len" => got.v = Len(Current)
        /\ got.who = "get" =>
              got.v = IF got.i < Len(Current) THEN <<Current[got.i + 1]>>
                      ELSE <<>>
        /\ got.who = "bget" => got.v = Current
        /\ \A n \in 1..Len(sets) : \A r \in WatchersAt(n) :
              Notified(n) =>
                  ValuesOf(r, n) =
                      IF wrapper = "list"
                      THEN Due(cells.regs[r].range, sets[n].after)
                      ELSE <<sets[n].after>>

\* A push through the original was notified to a watcher registered through
\* the clone, and len through the clone reads the new length.
C29_Witness ==
    /\ wrapper = "list"
    /\ Len(cells.handles) = 2
    /\ Len(cells.regs) = 1 /\ cells.regs[1].h = 2 /\ cells.regs[1].at = 0
    /\ Len(sets) = 1 /\ sets[1].op = "push" /\ sets[1].h = 1
    /\ sets[1].before = <<>>
    /\ AllValuesOf(1) = <<(<<6>>)>>
    /\ got.who = "len" /\ got.h = 2 /\ got.v = 1

\* ---------------------------------------------------------------- chain
\* The with stages a notification that entered the chain at stage e went
\* through and that no later with stage of the same type follows.
WithsAfter(e) ==
    {i \in e..Len(cells.chain) :
        /\ cells.chain[i].op = "with"
        /\ \A j \in (i + 1)..Len(cells.chain) :
              cells.chain[j].op = "with" => cells.chain[j].t # cells.chain[i].t}

\* C25: every notification delivered at the end of a chain of with, map,
\* Binding::mapping, zip, debounce and throttle holds, for each with(m) it
\* went through, the value m under the type of m (the last one of each
\* type), whichever side of a zip fired it; a notification that went through
\* no with carries empty metadata.
C25_MetadataSurvivesChain ==
    wrapper = "chain" =>
        \A d \in 1..Len(xlog) :
            /\ \A i \in WithsAfter(xlog[d].enter) :
                  MetaTryGet(xlog[d].m, cells.chain[i].t) = <<cells.chain[i].x>>
            /\ {xlog[d].m[j].t : j \in 1..Len(xlog[d].m)} =
                  {cells.chain[i].t : i \in WithsAfter(xlog[d].enter)}

\* A source wrapped by with(1) and zipped with a second Container: the
\* notification of the source arrived with 1 under its type, the one of the
\* second Container with empty metadata.
C25_Witness ==
    /\ wrapper = "chain"
    /\ cells.chain = <<[op |-> "with", t |-> "A", x |-> 1], [op |-> "zip"]>>
    /\ Len(xlog) = 2
    /\ xlog[1].enter = 1 /\ xlog[1].m = <<[t |-> "A", x |-> 1]>>
    /\ xlog[2].enter = 3 /\ xlog[2].m = NoMetadata

\* ------------------------------------------------------------- Metadata
\* The value last attached under type t, as <<x>>, or <<>> when none was.
RECURSIVE LastAttached(_, _)
LastAttached(t, n) ==
    IF n = 0 THEN <<>>
    ELSE IF sets[n].t = t THEN <<sets[n].x>>
    ELSE LastAttached(t, n - 1)

\* C26: a Metadata holds at most one value per type; with(x) of type T sets
\* the entry of T and leaves the entry of every other type as it was;
\* try_get of U returns None exactly when no value of U was attached and the
\* value attached last otherwise; get of U is fatal exactly when try_get of
\* U returns None, and returns the value otherwise.
C26_MetadataOneValuePerType ==
    wrapper = "metadata" =>
        /\ \A i, j \in 1..Len(cells.md) :
              cells.md[i].t = cells.md[j].t => i = j
        /\ got.who = "with" =>
              /\ MetaTryGet(cells.md, got.t) = <<got.x>>
              /\ \A u \in Types \ {got.t} :
                    MetaTryGet(cells.md, u) = MetaTryGet(got.pre, u)
        /\ got.who = "try_get" => got.v = LastAttached(got.t, Len(sets))
        /\ got.who = "get" =>
              /\ panicked = "expect" <=> LastAttached(got.t, Len(sets)) = <<>>
              /\ panicked = "no" => got.v = LastAttached(got.t, Len(sets))
        /\ panicked = "expect" => got.who = "get"

\* 1 and then 2 were attached under A: try_get of A returns 2.
C26_Witness ==
    /\ wrapper = "metadata"
    /\ sets = <<[t |-> "A", x |-> 1], [t |-> "A", x |-> 2]>>
    /\ got = [who |-> "try_get", t |-> "A", v |-> <<2>>]

\* get of a type nothing was attached under is fatal.
GetOfAbsentIsFatal ==
    /\ wrapper = "metadata"
    /\ sets = <<[t |-> "A", x |-> 1]>>
    /\ got.who = "get" /\ got.t = "B"
    /\ panicked = "expect"

\* ------------------------------------------------------------- Computed
\* The notifications of the wrapped signal from watch call r on, until its
\* guard was dropped: one per set, in order, each with the value set and the
\* metadata of Container::set.
WrappedNotified(r) ==
    [j \in 1..(LastSeen(r) - cells.regs[r].at) |->
        [v |-> sets[cells.regs[r].at + j].after, m |-> SetMeta,
         n |-> cells.regs[r].at + j]]

\* C27: a Computed and each of its clones are handles on the wrapped signal:
\* get through any of them is get of the wrapped signal, a watcher registered
\* through any of them receives exactly the notifications of the wrapped
\* signal, with their values, order and metadata, and a clone has no cell
\* and no registry of its own.
C27_ComputedIsTheWrappedSignal ==
    wrapper = "computed" =>
        /\ got.who = "cget" => got.v = VecOf(1) /\ got.v = Current
        /\ \A r \in 1..Len(cells.regs) : Received(r) = WrappedNotified(r)
        /\ \A b \in 1..Len(cells.boxes) : cells.boxes[b] = cells.handles[1]
        /\ Len(cells.vecs) = 1 /\ Len(cells.mgrs) = 1

\* A watcher registered through the clone of a Computed received the set
\* made on the wrapped Container, and get through the clone reads it.
C27_Witness ==
    /\ wrapper = "computed"
    /\ Len(cells.boxes) = 2
    /\ Len(cells.regs) = 1 /\ cells.regs[1].via = "computed"
    /\ cells.regs[1].h = 2 /\ cells.regs[1].at = 0
    /\ Len(sets) = 1 /\ sets[1].after = 1
    /\ Received(1) = <<[v |-> 1, m |-> EmptyMeta, n |-> 1]>>
    /\ got.who = "cget" /\ got.h = 2 /\ got.v = 1

\* --------------------------------------------------------- SignalStream
\* The events before event k that are polls.
PollsBefore(k) == {j \in 1..(k - 1) : xlog[j].e = "poll"}

SetsBefore(k) == {j \in 1..(k - 1) : xlog[j].e = "set"}

Latest(S) == CHOOSE j \in S : \A i \in S : i <= j

\* The value of the signal when event k starts.
ValueBefore(k) ==
    IF SetsBefore(k) = {} THEN 0 ELSE xlog[Latest(SetsBefore(k))].v

\* The last poll before event k that yielded a value.
YieldsBefore(k) == {j \in PollsBefore(k) : xlog[j].res # <<>>}

WakesBefore(k) == IF k = 1 THEN 0 ELSE xlog[k - 1].wakes

\* C28: the first poll yields the current value of the signal; a later poll
\* yields exactly when the signal has notified since the poll that yielded
\* last, and is Pending otherwise; every notification after the first poll
\* wakes the waker of the latest poll once; no poll wakes a waker.
C28_StreamYieldsOnUpdates ==
    wrapper = "stream" =>
        \A k \in 1..Len(xlog) :
            /\ (xlog[k].e = "poll" /\ PollsBefore(k) = {}) =>
                  xlog[k].res = <<ValueBefore(k)>>
            /\ (xlog[k].e = "poll" /\ PollsBefore(k) # {}) =>
                  (xlog[k].res # <<>> <=>
                     \E j \in SetsBefore(k) : j > Latest(YieldsBefore(k)))
            /\ xlog[k].e = "poll" => xlog[k].wakes = WakesBefore(k)
            /\ (xlog[k].e = "set" /\ PollsBefore(k) # {}) =>
                  /\ xlog[k].woke = <<xlog[Latest(PollsBefore(k))].w>>
                  /\ xlog[k].wakes = WakesBefore(k) + 1

\* The run of the test: a poll yields the value, the next is Pending, a set
\* wakes the waker, the poll after it yields the value set.
C28_Witness ==
    /\ wrapper = "stream"
    /\ Len(xlog) = 4
    /\ xlog[1].e = "poll" /\ xlog[1].res = <<0>>
    /\ xlog[2].e = "poll" /\ xlog[2].res = <<>> /\ xlog[2].w = 2
    /\ xlog[3].e = "set" /\ xlog[3].v = 1 /\ xlog[3].woke = <<2>>
    /\ xlog[4].e = "poll" /\ xlog[4].res = <<1>> /\ xlog[4].wakes = 1

\* ------------------------------------------------------------ WatcherId
\* C30: the identifiers of one registry are strictly increasing in the
\* order of registration and never handed out twice, also after a cancel;
\* when there is no next identifier register is fatal and the identifier
\* does not start again.
C30_IdsIncreaseAndNeverWrap ==
    wrapper = "registry" =>
        /\ \A i, j \in 1..Len(cells.regs) :
              i < j => cells.regs[i] < cells.regs[j]
        /\ \A i \in 1..Len(cells.regs) :
              IdMin <= cells.regs[i] /\ cells.regs[i] < id
        /\ Keys(map) \subseteq Range(cells.regs)
        /\ id <= USizeMax
        /\ panicked \in {"no", "id"}
        /\ panicked = "id" => id = USizeMax

\* Identifier 1 was cancelled and the registration after it got 3, not 1.
C30_Witness ==
    /\ wrapper = "registry"
    /\ cells.regs = <<1, 2, 3>>
    /\ Keys(map) = {2, 3}

\* The registration with no next identifier was fatal.
RegisterAtLimitIsFatal ==
    /\ wrapper = "registry"
    /\ panicked = "id"
    /\ Len(cells.regs) = USizeMax - 1

\* ---------------------------------------------------------------- C31
\* C31: for a Lazy constant, the first get() calls f exactly once, stores
\* the result and returns it; every later get() on it or on any clone
\* returns the stored value without calling f again, so f is called at most
\* once over any sequence of gets.
C31_LazyComputesOnce ==
    wrapper = "lazy" =>
        /\ cells.fcalls <= 1
        /\ \A n \in 1..Len(sets) :
               /\ ~sets[n].panic
               /\ sets[n].res = <<CallF(cells.f, 1)>>
               /\ sets[n].fcalls = (IF n = 1 THEN 1 ELSE 0)
               /\ cells.value = sets[n].res

\* The first get() of a Lazy calls f and then panics with nothing stored.
FirstGetPanics ==
    /\ wrapper = "lazy"
    /\ Len(sets) = 1
    /\ sets[1].panic
    /\ cells.fcalls = 1
    /\ cells.value = <<>>

\* ---------------------------------------------------------------- C32
\* The invocations of watcher i so far, in order.
LogOf(i) == SelectSeq(log, LAMBDA d : d.w = i)

\* C32: for a Container, whenever no notification is in progress, the value
\* most recently delivered to each registered watcher that has received at
\* least one notification equals get(), set calls made by watchers from
\* inside their callbacks included.
C32_WatchersSettleOnCurrentValue ==
    (wrapper = "none" /\ Idle) =>
        \A i \in Keys(map) :
            LogOf(i) # <<>> =>
                LogOf(i)[Len(LogOf(i))].v = ContainerGet

\* With no notification in progress, a registered watcher has last been
\* handed a value that the Container no longer holds: a watcher before it
\* has set the Container from inside its callback, and the outer notify has
\* gone on to deliver the value of the outer set.
StaleAfterNestedSet ==
    /\ wrapper = "none" /\ Idle
    /\ \E i \in Keys(map) :
        /\ LogOf(i) # <<>>
        /\ LogOf(i)[Len(LogOf(i))].v # ContainerGet
        /\ \E r \in returned : r.depth = 2

\* ---------------------------------------------------------------- C33
\* The watch call that registered watcher w.
RegOf(w) == CHOOSE r \in 1..Len(cells.regs) : cells.regs[r].id = w

\* C33: Cached::get called from inside a watcher callback of the source,
\* while the source is delivering a notification with value v, returns v,
\* whether that watcher was registered on the source before or after the
\* Cached was constructed.
C33_CachedGetInsideCallbackIsCurrent ==
    wrapper = "reading" =>
        \A n \in 1..Len(xlog) :
            xlog[n].res # <<>> => xlog[n].res[1] = xlog[n].v

\* A watcher registered before the Cached was constructed reads the Cached
\* from inside its callback and is answered with the value of before.
ReadBeforeCacheClosure ==
    /\ wrapper = "reading"
    /\ \E n \in 1..Len(xlog) :
        /\ xlog[n].res # <<>>
        /\ xlog[n].res[1] # xlog[n].v
        /\ ~cells.regs[RegOf(xlog[n].w)].built

\* A watcher registered after the Cached was constructed is answered with
\* the value being delivered, also when the cache held another value
\* before the notification.
ReadAfterCacheClosure ==
    /\ wrapper = "reading"
    /\ \E n \in 1..Len(xlog) :
        /\ xlog[n].res = <<xlog[n].v>>
        /\ cells.regs[RegOf(xlog[n].w)].built
        /\ sets[xlog[n].n].old # xlog[n].v

\* Inside a callback, only a watcher registered before the Cached is ever
\* answered with another value than the one being delivered.
StaleOnlyBeforeCacheClosure ==
    wrapper = "reading" =>
        \A n \in 1..Len(xlog) :
            (xlog[n].res # <<>> /\ cells.regs[RegOf(xlog[n].w)].built)
                => xlog[n].res[1] = xlog[n].v

\* ---------------------------------------------------------------- C34
ForwardedArrivals == {n \in 1..Len(uplog) : uplog[n].fwd}

\* C34: a Throttle forwards at most one upstream notification between two
\* consecutive timer expirations (and before the first), also when a
\* downstream watcher sets the source from inside the callback that
\* receives the forwarded notification.
C34_ThrottleForwardsOncePerWindow ==
    \A i, j \in ForwardedArrivals : uplog[i].ep = uplog[j].ep => i = j

\* Two notifications are forwarded with no timer expiring in between: the
\* second comes from a set made inside the callback that received the
\* first, before the closure has closed the gate.
ForwardedTwiceInWindow ==
    \E i, j \in ForwardedArrivals :
        /\ i < j
        /\ uplog[i].ep = uplog[j].ep
        /\ uplog[i].depth = 1 /\ uplog[j].depth = 2
        /\ \E n \in 1..Len(dlog) : dlog[n].n = j

\* With no set from inside a callback, at most one notification is
\* forwarded per window.
ForwardsOncePerWindowFlat ==
    (\A n \in 1..Len(uplog) : uplog[n].depth = 1) =>
        \A i, j \in ForwardedArrivals : uplog[i].ep = uplog[j].ep => i = j

\* With no set from inside a callback, a second notification in a window
\* is dropped.
DroppedInWindow ==
    /\ \A n \in 1..Len(uplog) : uplog[n].depth = 1
    /\ \E i, j \in 1..Len(uplog) :
        /\ i < j
        /\ uplog[i].fwd /\ ~uplog[j].fwd
        /\ uplog[i].ep = uplog[j].ep

\* ---------------------------------------------------------------- C35
\* C35: a downstream watcher registered through Debounce::watch or
\* Throttle::watch keeps receiving forwarded notifications for as long as
\* its own guard is held, even after every handle (the instance and all its
\* clones) of the Debounce / Throttle has been dropped: every set of the
\* source made while a downstream guard is held reaches the operator.
C35_WatcherOutlivesHandles ==
    \A n \in 1..Len(sets) : sets[n].held # {} => sets[n].arrived

\* The source is set while a downstream guard is held and no handle is
\* left, and the operator is not notified.
SetLostWithoutHandles ==
    \E n \in 1..Len(sets) :
        /\ sets[n].held # {}
        /\ sets[n].handles = 0
        /\ ~sets[n].arrived

\* The value a Debounce was about to deliver is lost when the last handle
\* is dropped while a downstream guard is held: its timer is cancelled with
\* no newer one in its place.
PendingLostWithoutHandles ==
    /\ wrapper = "debounce"
    /\ cells.handles = 0
    /\ dregs[1].map # <<>>
    /\ tasks # <<>>
    /\ tasks[Len(tasks)].st = "cancelled"

\* While a handle is alive, every set of the source made while a
\* downstream guard is held reaches the operator.
ArrivesWhileHandleAlive ==
    \A n \in 1..Len(sets) :
        (sets[n].held # {} /\ sets[n].handles >= 1) => sets[n].arrived

\* ---------------------------------------------------------------- C36
\* The calls made from inside a watcher callback.
InsideCalls == {n \in 1..Len(sets) : sets[n].depth > 0}

\* C36: a watcher registered with List::watch may call a mutating
\* operation (push, pop, insert, remove, clear) on the same List from
\* inside its callback: the operation completes without a borrow conflict,
\* the contents are updated, and its own notification is delivered.
C36_ListMutableFromCallback ==
    wrapper = "mutating" =>
        \A n \in InsideCalls :
            /\ sets[n].ok
            /\ sets[n].after = Effect(sets[n].o, sets[n].before).after
            /\ sets[n].fired = Effect(sets[n].o, sets[n].before).fire
            /\ sets[n].fired =>
                  \E k \in 1..Len(xlog) : xlog[k].n = n

\* A watcher invoked by a notification calls an operation on the List and
\* the call panics on the borrow of the Vec, which is left as it was.
CallbackMutationPanics ==
    /\ wrapper = "mutating"
    /\ panicked = "vec"
    /\ \E n \in InsideCalls :
        /\ ~sets[n].ok
        /\ sets[n].after = sets[n].before
        /\ \E k \in 1..Len(xlog) : xlog[k].n > 0

\* The same inside the first call, which watch makes itself.
FirstCallMutationPanics ==
    /\ wrapper = "mutating"
    /\ panicked = "vec"
    /\ cells.mgr.map = <<>>
    /\ InsideCalls # {}

\* No call made from inside a callback ever gets its borrow.
NoInsideCallSucceeds ==
    wrapper = "mutating" => \A n \in InsideCalls : ~sets[n].ok

\* ---------------------------------------------------------------- C37
\* C37: while handling an upstream notification, the closure installed by
\* Distinct::watch never requests a mutable borrow of the shared last_value
\* cell while a shared borrow of that cell is still held, so the first and
\* every later notification complete without a borrow panic.
C37_DistinctClosureBorrowsInTurn ==
    wrapper = "distinct" => panicked # "distinct"

\* The first notification of the source that reaches a closure of
\* Distinct::watch panics on the borrow of the last_value cell: nothing is
\* recorded and the watcher is not called.
DistinctFirstNotificationPanics ==
    /\ wrapper = "distinct"
    /\ panicked = "distinct"
    /\ Len(sets) = 1
    /\ \E r \in 1..Len(cells.regs) : cells.regs[r].via = "distinct"
    /\ cells.last = <<>>
    /\ xlog = <<>>

\* A notification completes only when no closure of Distinct::watch is
\* registered on the source.
DistinctCompletesOnlyUnwatched ==
    wrapper = "distinct" =>
        \A n \in 1..Len(sets) :
            (n < Len(sets) \/ panicked = "no") => DistinctWatchers(n) = {}

\* ---------------------------------------------------------------- C38
\* What a.get() and b.get() return while set n is being notified.
GetsAt(n) ==
    <<ValueAfter("a", n),
      IF cells.topo = "same" THEN ValueAfter("a", n) ELSE ValueAfter("b", n)>>

\* C38: every tuple delivered to a Zip watcher equals (a.get(), b.get())
\* evaluated at the moment of delivery, for any two source signals, also
\* when both sides are clones of the same Container and when a side is a
\* signal whose get() can change without notifying (a Throttle).
C38_ZipDeliversCurrentTuple ==
    wrapper = "sides" =>
        \A k \in 1..Len(xlog) : xlog[k].v = GetsAt(xlog[k].n)

\* With two clones of one Container as sides, the closure of side a
\* delivers the new value with the value the other side held before.
ZipOfClonesDeliversOldOther ==
    /\ wrapper = "sides" /\ cells.topo = "same"
    /\ \E k \in 1..Len(xlog) :
        /\ xlog[k].v # GetsAt(xlog[k].n)
        /\ xlog[k].v[1] = sets[xlog[k].n].v
        /\ xlog[k].v[2] = ValueAfter("a", xlog[k].n - 1)

\* With a Throttle as side b, a set of side a is delivered with a value of
\* b that the Throttle did not forward and b.get() no longer returns.
ZipOfThrottleDeliversOldOther ==
    /\ wrapper = "sides" /\ cells.topo = "gated"
    /\ \E k \in 1..Len(xlog) :
        /\ sets[xlog[k].n].on = "a"
        /\ xlog[k].v[2] # ValueAfter("b", xlog[k].n)
        /\ \E j \in 1..xlog[k].n : sets[j].on = "b" /\ ~sets[j].fwd

\* With two Containers as sides every tuple is the current one.
ZipOfTwoContainersCurrent ==
    (wrapper = "sides" /\ cells.topo = "two") =>
        \A k \in 1..Len(xlog) : xlog[k].v = GetsAt(xlog[k].n)

\* ---------------------------------------------------------------- C39
\* The watchers that received something from fire f.
FiredTo(f) == {dlog[j].w : j \in (f.from + 1)..f.to}

\* C39: when a Debounce timer fires, the remembered value is delivered to
\* exactly the downstream watchers registered at that moment, once each: a
\* watcher attached after the upstream notification but before the timer
\* fires receives it, and a watcher whose guard was dropped while the timer
\* was pending does not.
C39_DebounceDeliversToRegisteredAtFire ==
    wrapper = "debounce" =>
        \A k \in 1..Len(xlog) :
            LET f == xlog[k] IN
                /\ FiredTo(f) = f.regs
                /\ f.to - f.from = Cardinality(f.regs)
                /\ \A j \in (f.from + 1)..f.to :
                      /\ dlog[j].v = uplog[tasks[f.t].n].v
                      /\ dlog[j].n = tasks[f.t].n

\* One timer fires with a watcher that was attached while it was pending,
\* which receives the value, and a watcher that was dropped while it was
\* pending, which does not.
C39_Witness ==
    /\ wrapper = "debounce"
    /\ \E k \in 1..Len(xlog) :
        LET f == xlog[k]
            before == uplog[tasks[f.t].n].regs
        IN  /\ \E w \in f.regs : w \notin before /\ w \in FiredTo(f)
            /\ \E w \in before : w \notin f.regs /\ w \notin FiredTo(f)

\* ---------------------------------------------------------------- C40
\* The polls after the first one.
LaterPolls == {k \in 1..Len(xlog) : xlog[k].e = "poll" /\ PollsBefore(k) # {}}

\* The notifications between poll k and the poll before it.
SetsSincePoll(k) == {j \in SetsBefore(k) : j > Latest(PollsBefore(k))}

\* C40: SignalStream keeps a single pending slot: if the signal notifies
\* several times between two polls, the next poll yields only the most
\* recent value, and the poll after it is Pending unless a further
\* notification arrived; no notified value is ever yielded twice.
C40_StreamKeepsOnlyLatest ==
    wrapper = "stream" =>
        /\ \A k \in LaterPolls :
              xlog[k].res = IF SetsSincePoll(k) = {} THEN <<>>
                            ELSE <<xlog[Latest(SetsSincePoll(k))].v>>
        /\ \A k1, k2 \in LaterPolls :
              (k1 < k2 /\ xlog[k1].res # <<>> /\ xlog[k2].res # <<>>) =>
                  /\ SetsSincePoll(k2) # {}
                  /\ Latest(SetsSincePoll(k1)) < Latest(SetsSincePoll(k2))
        /\ Len(cells.queue) <= 1

\* After the first poll the signal notifies 1 and then 0; the next poll
\* yields 0 only and the poll after it is Pending.
C40_Witness ==
    /\ wrapper = "stream"
    /\ Len(xlog) = 5
    /\ xlog[1].e = "poll"
    /\ xlog[2].e = "set" /\ xlog[2].v = 1
    /\ xlog[3].e = "set" /\ xlog[3].v = 0
    /\ xlog[4].e = "poll" /\ xlog[4].res = <<0>>
    /\ xlog[5].e = "poll" /\ xlog[5].res = <<>>

====
